---- MODULE Spec2Model ----
\* The audience rule engine of the CRM backend: convertNaturalLanguageToRules
\* (src/src/routes/vendor.ts), the local heuristic extraction ("Stage A") and the
\* provider orchestration around it ("Stage B").
\*
\* Text is a sequence of one-character strings.  Offsets are 0-based, as in the
\* source: CharAt(s, i) is s.charAt(i).  A JavaScript Number is an integer count
\* of 1/Scale units (Scale = 10^FracDigits); the number tokens of the prompts
\* carry at most FracDigits fractional digits, so the representation is exact.
EXTENDS Integers, Sequences, FiniteSets, TLC

\* ---------------------------------------------------------------- bounds

\* Fractional digits a number token of a generated prompt may carry.
FracDigits == 1

\* How many number tokens of each family (SpendTokens, VisitTokens,
\* RecencyTokens) the generated prompts draw from.
NumTokens == 3

\* ---------------------------------------------------------------- characters

RECURSIVE Pow10(_)
Pow10(n) == IF n = 0 THEN 1 ELSE 10 * Pow10(n - 1)

Scale == Pow10(FracDigits)

DigitChars == <<"0", "1", "2", "3", "4", "5", "6", "7", "8", "9">>

LowerChars ==
  <<"a", "b", "c", "d", "e", "f", "g", "h", "i", "j", "k", "l", "m",
    "n", "o", "p", "q", "r", "s", "t", "u", "v", "w", "x", "y", "z">>

UpperChars ==
  <<"A", "B", "C", "D", "E", "F", "G", "H", "I", "J", "K", "L", "M",
    "N", "O", "P", "Q", "R", "S", "T", "U", "V", "W", "X", "Y", "Z">>

Range(f) == {f[i] : i \in DOMAIN f}

SetMin(S) == CHOOSE x \in S : \A y \in S : x <= y

SetMax(S) == CHOOSE x \in S : \A y \in S : y <= x

Max2(a, b) == IF a >= b THEN a ELSE b

Min2(a, b) == IF a <= b THEN a ELSE b

Abs(x) == IF x < 0 THEN -x ELSE x

DigitSet == Range(DigitChars)

LetterSet == Range(LowerChars) \cup Range(UpperChars)

UpperSet == Range(UpperChars)

\* \d
IsDigit(c) == c \in DigitSet

\* [A-Za-z]
IsLetter(c) == c \in LetterSet

\* \w, the class \b is defined by
IsWordChar(c) == IsLetter(c) \/ IsDigit(c) \/ c = "_"

\* \s, and what trim() strips: the blank is the only white space of the alphabet
IsSpace(c) == c = " "

DigitVal(c) == (CHOOSE i \in DOMAIN DigitChars : DigitChars[i] = c) - 1

\* String.prototype.toLowerCase, one character
LowerChar(c) ==
  IF c \in UpperSet
  THEN LowerChars[CHOOSE i \in DOMAIN UpperChars : UpperChars[i] = c]
  ELSE c

ToLowerCase(s) == [i \in 1..Len(s) |-> LowerChar(s[i])]

\* ---------------------------------------------------------------- strings

CharAt(s, i) == s[i + 1]

\* s.startsWith(w, i)
StartsWithAt(s, w, i) ==
  /\ i >= 0
  /\ i + Len(w) <= Len(s)
  /\ \A j \in 1..Len(w) : s[i + j] = w[j]

\* s.includes(w)
Includes(s, w) == \E i \in 0..(Len(s) - Len(w)) : StartsWithAt(s, w, i)

\* s.indexOf(w): the first offset, or -1
IndexOf(s, w) ==
  LET P == {i \in 0..(Len(s) - Len(w)) : StartsWithAt(s, w, i)}
  IN IF P = {} THEN -1 ELSE SetMin(P)

\* An offset argument of substring, clamped to [0, n]
Clamp(x, n) == Max2(0, Min2(x, n))

\* s.substring(a, b): both ends clamped to [0, length], swapped when a > b
Substring(s, a, b) ==
  SubSeq(s, Min2(Clamp(a, Len(s)), Clamp(b, Len(s))) + 1,
         Max2(Clamp(a, Len(s)), Clamp(b, Len(s))))

\* s.trim()
Trim(s) ==
  IF \A i \in 1..Len(s) : IsSpace(s[i]) THEN <<>>
  ELSE SubSeq(s, SetMin({i \in 1..Len(s) : ~IsSpace(s[i])}),
              SetMax({i \in 1..Len(s) : ~IsSpace(s[i])}))

\* /\bw\b/.test(s): w between two word boundaries (w is made of word characters)
TestWord(s, w) ==
  \E i \in 0..(Len(s) - Len(w)) :
    /\ StartsWithAt(s, w, i)
    /\ (i = 0 \/ ~IsWordChar(CharAt(s, i - 1)))
    /\ (i + Len(w) = Len(s) \/ ~IsWordChar(CharAt(s, i + Len(w))))

\* First offset >= i that holds no digit (Len(s) when the digits run to the end)
DigitRunEnd(s, i) ==
  SetMin({j \in i..Len(s) : j = Len(s) \/ ~IsDigit(CharAt(s, j))})

\* First offset >= i that holds no blank: \s* is greedy
SkipSpaces(s, i) ==
  SetMin({j \in i..Len(s) : j = Len(s) \/ ~IsSpace(CharAt(s, j))})

\* (?:\.\d+)? at offset e, after the integer digits: the offset after it
FractionEnd(s, e) ==
  IF e + 1 < Len(s) /\ CharAt(s, e) = "." /\ IsDigit(CharAt(s, e + 1))
  THEN DigitRunEnd(s, e + 1)
  ELSE e

\* (\d+(?:\.\d+)?) matched at offset i, where CharAt(s, i) is a digit: the offset
\* after the token.  Both repetitions are greedy.
NumberEnd(s, i) == FractionEnd(s, DigitRunEnd(s, i))

RECURSIVE DigitsValue(_)
DigitsValue(d) ==
  IF d = <<>> THEN 0
  ELSE 10 * DigitsValue(SubSeq(d, 1, Len(d) - 1)) + DigitVal(d[Len(d)])

\* The value, in 1/Scale units, of a token whose "." stands at offset dot (-1: none)
ScaledValue(tok, dot) ==
  IF dot = -1 THEN DigitsValue(tok) * Scale
  ELSE DigitsValue(SubSeq(tok, 1, dot)) * Scale
         + DigitsValue(SubSeq(tok, dot + 2, Len(tok)))
             * Pow10(FracDigits - (Len(tok) - dot - 1))

\* Number(token) for a token of (\d+(?:\.\d+)?), in 1/Scale units
NumberOf(tok) == ScaledValue(tok, IndexOf(tok, <<".">>))

\* Math.round of a non-negative Number: to the nearest integer, halves up
MathRound(v) == ((2 * v + Scale) \div (2 * Scale)) * Scale

\* ---------------------------------------------------------------- vocabulary of the source

K_spend == <<"s", "p", "e", "n", "d">>

K_spent == <<"s", "p", "e", "n", "t">>

K_spending == <<"s", "p", "e", "n", "d", "i", "n", "g">>

K_over == <<"o", "v", "e", "r">>

K_more_than == <<"m", "o", "r", "e", " ", "t", "h", "a", "n">>

K_less_than == <<"l", "e", "s", "s", " ", "t", "h", "a", "n">>

K_under == <<"u", "n", "d", "e", "r">>

K_greater_than == <<"g", "r", "e", "a", "t", "e", "r", " ", "t", "h", "a", "n">>

K_visit == <<"v", "i", "s", "i", "t">>

K_visits == <<"v", "i", "s", "i", "t", "s">>

K_visited == <<"v", "i", "s", "i", "t", "e", "d">>

K_times == <<"t", "i", "m", "e", "s">>

K_time == <<"t", "i", "m", "e">>

K_came == <<"c", "a", "m", "e">>

K_month == <<"m", "o", "n", "t", "h">>

K_months == <<"m", "o", "n", "t", "h", "s">>

K_day == <<"d", "a", "y">>

K_days == <<"d", "a", "y", "s">>

K_last == <<"l", "a", "s", "t">>

K_count == <<"c", "o", "u", "n", "t">>

K_counts == <<"c", "o", "u", "n", "t", "s">>

K_number_of == <<"n", "u", "m", "b", "e", "r", " ", "o", "f">>

K_no_of == <<"n", "o", " ", "o", "f">>

K_or == <<"o", "r">>

K_and == <<"a", "n", "d">>

K_ge == <<">", "=">>

K_gt == <<">">>

K_le == <<"<", "=">>

K_lt == <<"<">>

K_eq == <<"=">>

K_between_ == <<" ", "b", "e", "t", "w", "e", "e", "n", " ">>

K_and_ == <<" ", "a", "n", "d", " ">>

F_totalSpending == <<"t", "o", "t", "a", "l", "S", "p", "e", "n", "d", "i", "n", "g">>

F_visitCount == <<"v", "i", "s", "i", "t", "C", "o", "u", "n", "t">>

F_lastVisit == <<"l", "a", "s", "t", "V", "i", "s", "i", "t">>

F_CountSuffix == <<"C", "o", "u", "n", "t">>

\* ---------------------------------------------------------------- Stage A

\* The 20 of \D{0,20}? in the keyword patterns
ProximityLimit == 20

\* The 20 characters an operator window reaches to either side
WindowRadius == 20

\* Days a month converts to
DaysPerMonth == 30

\* The offset of the first digit at or after offset i, or -1
NextDigit(s, i) ==
  IF \E j \in i..(Len(s) - 1) : IsDigit(CharAt(s, j))
  THEN SetMin({j \in i..(Len(s) - 1) : IsDigit(CharAt(s, j))})
  ELSE -1

\* numberMatches: every (\d+(?:\.\d+)?) token with its value and offset
RECURSIVE NumberMatchesFrom(_, _)
NumberMatchesAt(s, p) ==
  IF p = -1 THEN <<>>
  ELSE <<[value |-> NumberOf(Substring(s, p, NumberEnd(s, p))), index |-> p]>>
         \o NumberMatchesFrom(s, NumberEnd(s, p))

NumberMatchesFrom(s, i) == NumberMatchesAt(s, NextDigit(s, i))

NumberMatches(s) == NumberMatchesFrom(s, 0)

\* Some keyword variant occurs in the prompt
AnyKeyword(s, kws) == \E k \in 1..Len(kws) : Includes(s, kws[k])

\* keywordVariants.map(k => indexOf(k)).filter(i => i >= 0)[0] ?? 0
FirstKeywordIndex(s, kws) ==
  IF AnyKeyword(s, kws)
  THEN IndexOf(s, kws[SetMin({k \in 1..Len(kws) : Includes(s, kws[k])})])
  ELSE 0

\* The inner loop of findNearestNumber: best is <<>> (null) or <<[value, index, dist]>>
RECURSIVE NearestLoop(_, _, _, _)
NearestLoop(nms, ki, n, best) ==
  IF n > Len(nms) THEN best
  ELSE NearestLoop(nms, ki, n + 1,
         IF best = <<>> \/ Abs(nms[n].index - ki) < best[1].dist
         THEN <<[value |-> nms[n].value, index |-> nms[n].index,
                 dist |-> Abs(nms[n].index - ki)]>>
         ELSE best)

\* return { value: best.value, index: best.index }, or null
NearestResult(best) ==
  IF best = <<>> THEN <<>>
  ELSE <<[value |-> best[1].value, index |-> best[1].index]>>

\* findNearestNumber: the number nearest to the first keyword variant the prompt
\* holds; <<>> (null) without a keyword or without a number
FindNearestNumber(s, nms, kws) ==
  IF ~AnyKeyword(s, kws) THEN <<>>
  ELSE NearestResult(NearestLoop(nms, FirstKeywordIndex(s, kws), 1, <<>>))

\* A condition candidate: field, operator, value and index, as in the source.
\* Two more fields record how it came about: via names the extraction path that
\* pushed it, near holds the text its operator was inferred from (<<>>: none).
Candidate(field, op, value, index, via, near) ==
  [field |-> field, operator |-> op, value |-> value, index |-> index,
   via |-> via, near |-> near]

\* The operator choice of pushNumericCondition
PushOperator(nearby, defaultOp) ==
  IF Includes(nearby, K_more_than) \/ Includes(nearby, K_over) THEN ">"
  ELSE IF Includes(nearby, K_less_than) \/ Includes(nearby, K_under) THEN "<"
  ELSE defaultOp

\* nearby of pushNumericCondition: from 20 before the keyword or the number,
\* whichever is first, to 20 after the other
PushWindow(s, ki, ni) ==
  Substring(s, Max2(0, Min2(ki, ni) - WindowRadius),
            Min2(Len(s), Max2(ki, ni) + WindowRadius))

\* The body of pushNumericCondition, nm and ki found
PushNearest(s, field, defaultOp, via, nm, ki) ==
  IF nm = <<>> THEN <<>>
  ELSE <<Candidate(field, PushOperator(PushWindow(s, ki, nm[1].index), defaultOp),
                   nm[1].value, ki, via, PushWindow(s, ki, nm[1].index))>>

\* pushNumericCondition: the candidates it pushes (none or one)
PushNumericCondition(s, nms, field, kws, defaultOp, via) ==
  PushNearest(s, field, defaultOp, via, FindNearestNumber(s, nms, kws),
              FirstKeywordIndex(s, kws))

\* \D{0,20}?(\d...) tried at offset from: the offset of the digit the lazy run of
\* non-digits stops at, or -1
NumberAfterNonDigits(s, from) ==
  IF \E k \in 0..ProximityLimit :
       from + k < Len(s) /\ IsDigit(CharAt(s, from + k))
  THEN from + SetMin({k \in 0..ProximityLimit :
                        from + k < Len(s) /\ IsDigit(CharAt(s, from + k))})
  ELSE -1

\* The alternatives of (?:k1|k2|...)\D{0,20}?(\d...) that match at offset i
KeywordAlts(s, kws, i) ==
  {k \in 1..Len(kws) :
     /\ StartsWithAt(s, kws[k], i)
     /\ NumberAfterNonDigits(s, i + Len(kws[k])) # -1}

\* A match that starts at offset i and whose number starts at offset p: its
\* index, m[0] and m[1]
MatchFrom(s, i, p) ==
  <<[index |-> i, m0 |-> Substring(s, i, NumberEnd(s, p)),
     m1 |-> Substring(s, p, NumberEnd(s, p))]>>

\* s.match(/(?:k1|k2|...)\D{0,20}?(\d+(?:\.\d+)?)/) at offset i, the
\* alternatives tried in order
MatchKeywordAt(s, kws, i) ==
  MatchFrom(s, i, NumberAfterNonDigits(s, i + Len(kws[SetMin(KeywordAlts(s, kws, i))])))

\* s.match(/(?:k1|k2|...)\D{0,20}?(\d+(?:\.\d+)?)/): <<>> (null) or the leftmost match
MatchKeywordNumber(s, kws) ==
  LET M == {i \in 0..(Len(s) - 1) : KeywordAlts(s, kws, i) # {}}
  IN IF M = {} THEN <<>> ELSE MatchKeywordAt(s, kws, SetMin(M))

\* /over\s*(\d...)/ matches at offset i
OverAt(s, i) ==
  /\ StartsWithAt(s, K_over, i)
  /\ SkipSpaces(s, i + Len(K_over)) < Len(s)
  /\ IsDigit(CharAt(s, SkipSpaces(s, i + Len(K_over))))

\* s.match(/over\s*(\d+(?:\.\d+)?)/)
MatchOverAt(s, i) == MatchFrom(s, i, SkipSpaces(s, i + Len(K_over)))

MatchOverNumber(s) ==
  LET M == {i \in 0..(Len(s) - 1) : OverAt(s, i)}
  IN IF M = {} THEN <<>> ELSE MatchOverAt(s, SetMin(M))

\* A match that starts with its number, at offset i: its index and m[1]
NumberAt(s, i) == <<[index |-> i, m1 |-> Substring(s, i, NumberEnd(s, i))]>>

\* /(\d...)\s*(?:times|visits)/ matches at offset i
TimesAt(s, i) ==
  /\ IsDigit(CharAt(s, i))
  /\ \/ StartsWithAt(s, K_times, SkipSpaces(s, NumberEnd(s, i)))
     \/ StartsWithAt(s, K_visits, SkipSpaces(s, NumberEnd(s, i)))

\* s.match(/(\d+(?:\.\d+)?)\s*(?:times|visits)/)
MatchNumberTimes(s) ==
  LET M == {i \in 0..(Len(s) - 1) : TimesAt(s, i)}
  IN IF M = {} THEN <<>> ELSE NumberAt(s, SetMin(M))

\* SpendingOperator without "under", as the visits block has it
SpendingOperatorLessThanOnly(nearby) ==
  IF Includes(nearby, K_more_than) \/ Includes(nearby, K_over) THEN ">"
  ELSE IF Includes(nearby, K_less_than) THEN "<"
  ELSE ">="

\* The operator choice of the spending block
SpendingOperator(nearby) ==
  IF Includes(nearby, K_more_than) \/ Includes(nearby, K_over) THEN ">"
  ELSE IF Includes(nearby, K_less_than) \/ Includes(nearby, K_under) THEN "<"
  ELSE ">="

\* VisitOperator with "under", as the spending block has it
VisitOperatorWithUnder(nearby) ==
  IF Includes(nearby, K_more_than) \/ Includes(nearby, K_over) THEN ">"
  ELSE IF Includes(nearby, K_less_than) \/ Includes(nearby, K_under) THEN "<"
  ELSE ">="

\* The operator choice of the visits block
VisitOperator(nearby) ==
  IF Includes(nearby, K_more_than) \/ Includes(nearby, K_over) THEN ">"
  ELSE IF Includes(nearby, K_less_than) THEN "<"
  ELSE ">="

\* substring(max(0, idx - 20), min(length, idx + 20))
WindowAround(s, idx) ==
  Substring(s, Max2(0, idx - WindowRadius), Min2(Len(s), idx + WindowRadius))

\* The candidate a direct match pushes: its operator is read from the window
MatchedCandidate(field, op, matched, via, nearby) ==
  <<Candidate(field, op, matched[1].val, matched[1].idx, via, nearby)>>

\* matched of the spending block, from what the two patterns found
SpendingMatched(s, m1, m2) ==
  IF m1 # <<>>
  THEN <<[val |-> NumberOf(m1[1].m1),
          idx |-> m1[1].index + Max2(0, IndexOf(m1[1].m0, m1[1].m1))]>>
  ELSE IF m2 # <<>> /\ Includes(s, K_spend)
  THEN <<[val |-> NumberOf(m2[1].m1), idx |-> m2[1].index]>>
  ELSE <<>>

\* The push of the spending block
SpendingPush(s, nms, matched) ==
  IF matched # <<>>
  THEN MatchedCandidate(F_totalSpending,
                        SpendingOperator(WindowAround(s, matched[1].idx)), matched,
                        "spending", WindowAround(s, matched[1].idx))
  ELSE PushNumericCondition(s, nms, F_totalSpending,
         <<K_spent, K_spending, K_spend, K_over, K_more_than>>, ">=",
         "spendingNearest")

\* The spending block
SpendingCandidates(s, nms) ==
  IF ~(Includes(s, K_spend) \/ Includes(s, K_spent) \/ Includes(s, K_spending))
  THEN <<>>
  ELSE SpendingPush(s, nms,
         SpendingMatched(s, MatchKeywordNumber(s, <<K_spent, K_spending, K_spend>>),
                         MatchOverNumber(s)))

\* matched of the visits block, from what the two patterns found
VisitMatched(m1, m2) ==
  IF m1 # <<>>
  THEN <<[val |-> NumberOf(m1[1].m1), idx |-> m1[1].index]>>
  ELSE IF m2 # <<>>
  THEN <<[val |-> NumberOf(m2[1].m1), idx |-> m2[1].index]>>
  ELSE <<>>

\* The push of the visits block
VisitPush(s, nms, matched) ==
  IF matched # <<>>
  THEN MatchedCandidate(F_visitCount,
                        VisitOperator(WindowAround(s, matched[1].idx)), matched,
                        "visits", WindowAround(s, matched[1].idx))
  ELSE PushNumericCondition(s, nms, F_visitCount,
         <<K_visit, K_visits, K_times, K_time, K_came>>, ">=", "visitsNearest")

\* The visits block
VisitCandidates(s, nms) ==
  IF ~(Includes(s, K_visit) \/ Includes(s, K_visits) \/ Includes(s, K_times)
       \/ Includes(s, K_came))
  THEN <<>>
  ELSE VisitPush(s, nms,
         VisitMatched(MatchKeywordNumber(s, <<K_visited>>), MatchNumberTimes(s)))

RecencyKeywords == <<K_month, K_months, K_day, K_days, K_last>>

\* RecencyDays without Math.round
RecencyDaysUnrounded(s, timeNum) ==
  IF Includes(s, K_month) \/ Includes(s, K_months)
  THEN timeNum * DaysPerMonth
  ELSE timeNum

\* days: months become 30 days each, after Math.round
RecencyDays(s, timeNum) ==
  IF Includes(s, K_month) \/ Includes(s, K_months)
  THEN MathRound(timeNum) * DaysPerMonth
  ELSE MathRound(timeNum)

\* The push of the time-based block
RecencyPush(s, timeNumObj) ==
  IF timeNumObj = <<>> THEN <<>>
  ELSE <<Candidate(F_lastVisit, "before", RecencyDays(s, timeNumObj[1].value),
                   FirstKeywordIndex(s, RecencyKeywords), "recency", <<>>)>>

\* The time-based block
RecencyCandidates(s, nms) ==
  IF ~AnyKeyword(s, RecencyKeywords) THEN <<>>
  ELSE RecencyPush(s, FindNearestNumber(s, nms, RecencyKeywords))

CountWords == <<K_count, K_counts, K_number_of, K_no_of>>

Comparators ==
  <<K_greater_than, K_more_than, K_over, K_less_than, K_under,
    K_ge, K_gt, K_le, K_lt, K_eq>>

\* [a-zA-Z_]
IsNounChar(c) == IsLetter(c) \/ c = "_"

\* (\d...) at offset p: p, or -1
DigitAt(s, p) == IF p < Len(s) /\ IsDigit(CharAt(s, p)) THEN p ELSE -1

\* \s*(\d...) at offset q: the digit's offset, or -1
DigitAfterSpaces(s, q) == DigitAt(s, SkipSpaces(s, q))

\* The comparators after which, at offset q, the number follows
ComparatorsAt(s, q) ==
  {c \in 1..Len(Comparators) :
     /\ StartsWithAt(s, Comparators[c], q)
     /\ DigitAfterSpaces(s, q + Len(Comparators[c])) # -1}

\* (?:greater than|...|=)?\s*(\d...) at offset q: the digit's offset, or -1.  The
\* optional group is greedy: the comparators first, in order, then none.
NumberAfterComparator(s, q) ==
  IF ComparatorsAt(s, q) # {}
  THEN DigitAfterSpaces(s, q + Len(Comparators[SetMin(ComparatorsAt(s, q))]))
  ELSE DigitAfterSpaces(s, q)

\* The count words that, after the blank at offset j, lead to the number
CountWordsAt(s, j) ==
  {a \in 1..Len(CountWords) :
     /\ StartsWithAt(s, CountWords[a], j + 1)
     /\ StartsWithAt(s, <<" ">>, j + 1 + Len(CountWords[a]))
     /\ NumberAfterComparator(s, j + 1 + Len(CountWords[a]) + 1) # -1}

\* " (?:count|counts|number of|no of) (?:...)?\s*(\d...)" at offset j, the
\* alternatives tried in order: the digit's offset, or -1
CountTailNumber(s, j) ==
  IF j < Len(s) /\ CharAt(s, j) = " " /\ CountWordsAt(s, j) # {}
  THEN NumberAfterComparator(s,
         j + 1 + Len(CountWords[SetMin(CountWordsAt(s, j))]) + 1)
  ELSE -1

\* The offsets at which a tail of countPattern stands
CountTails(s) == {j \in 1..(Len(s) - 1) : CountTailNumber(s, j) # -1}

\* The offsets from from on at which a run of [a-zA-Z_] reaches a tail of J
CountStarts(s, from, J) ==
  {x \in from..(Len(s) - 1) :
     \E j \in J : j > x /\ \A y \in x..(j - 1) : IsNounChar(CharAt(s, y))}

\* matchAll(countPattern): the matches from offset from on, left to right, each
\* search resuming where the match before it ended; J holds the offsets of the
\* tails.  A match starts at the leftmost offset from which a run of [a-zA-Z_]
\* reaches a tail; the run is greedy and ends where the tail's blank stands.
\* Each match: index, end, noun (m[1]) and num (m[2]).
RECURSIVE CountMatchesFrom(_, _, _)
CountMatch(s, J, i, j, p) ==
  <<[index |-> i, end |-> NumberEnd(s, p), noun |-> Substring(s, i, j),
     num |-> Substring(s, p, NumberEnd(s, p))]>>
    \o CountMatchesFrom(s, NumberEnd(s, p), J)

CountMatchAt(s, J, i) ==
  CountMatch(s, J, i, SetMin({x \in J : x > i}),
             CountTailNumber(s, SetMin({x \in J : x > i})))

CountMatchesFrom(s, from, J) ==
  LET M == CountStarts(s, from, J)
  IN IF M = {} THEN <<>> ELSE CountMatchAt(s, J, SetMin(M))

\* The operator choice of the count pattern
CountOperator(surrounding) ==
  IF \/ Includes(surrounding, K_greater_than)
     \/ Includes(surrounding, K_more_than)
     \/ Includes(surrounding, K_over)
  THEN ">"
  ELSE IF Includes(surrounding, K_less_than) \/ Includes(surrounding, K_under)
  THEN "<"
  ELSE ">="

\* surrounding of the count loop
CountWindow(s, m) ==
  Substring(s, Max2(0, m.index - WindowRadius),
            m.index + (m.end - m.index) + WindowRadius)

\* The body of the count loop, for one match
CountCandidate(s, m) ==
  Candidate(m.noun \o F_CountSuffix, CountOperator(CountWindow(s, m)),
            NumberOf(m.num), m.index, "count", CountWindow(s, m))

\* The count loop over the matches ms
CountLoop(s, ms) == [n \in 1..Len(ms) |-> CountCandidate(s, ms[n])]

\* The generic "<noun> count <op> <number>" loop
CountCandidates(s) == CountLoop(s, CountMatchesFrom(s, 0, CountTails(s)))

\* " and (\d...)" at offset e1, after the first number: the offset after it, or -1
BetweenSecond(s, e1) ==
  IF /\ StartsWithAt(s, K_and_, e1)
     /\ e1 + Len(K_and_) < Len(s)
     /\ IsDigit(CharAt(s, e1 + Len(K_and_)))
  THEN NumberEnd(s, e1 + Len(K_and_))
  ELSE -1

\* " between (\d...) and (\d...)" at offset b: the offset after it, or -1
BetweenTailEnd(s, b) ==
  IF /\ StartsWithAt(s, K_between_, b)
     /\ b + Len(K_between_) < Len(s)
     /\ IsDigit(CharAt(s, b + Len(K_between_)))
  THEN BetweenSecond(s, NumberEnd(s, b + Len(K_between_)))
  ELSE -1

\* [A-Za-z ]
IsPhraseChar(c) == IsLetter(c) \/ c = " "

\* The offsets at which a tail of betweenPattern stands
BetweenTails(s) == {b \in 1..(Len(s) - 1) : BetweenTailEnd(s, b) # -1}

\* The run of [A-Za-z ] from offset x reaches offset b
PhraseRun(s, x, b) == b > x /\ \A y \in x..(b - 1) : IsPhraseChar(CharAt(s, y))

\* The offsets from from on at which a run of [A-Za-z ] reaches a tail of B
BetweenStarts(s, from, B) ==
  {x \in from..(Len(s) - 1) : \E b \in B : PhraseRun(s, x, b)}

\* matchAll(betweenPattern): the matches from offset from on; B holds the
\* offsets of the tails.  A match starts at the leftmost offset from which a run
\* of [A-Za-z ] reaches a tail; the phrase is lazy and stops at the first tail
\* it reaches.  Each match: index, end, phrase (m[1]), low (m[2]) and high (m[3]).
RECURSIVE BetweenMatchesFrom(_, _, _)
BetweenMatch(s, B, i, b) ==
  <<[index |-> i, end |-> BetweenTailEnd(s, b), phrase |-> Substring(s, i, b),
     low |-> Substring(s, b + Len(K_between_), NumberEnd(s, b + Len(K_between_))),
     high |-> Substring(s, NumberEnd(s, b + Len(K_between_)) + Len(K_and_),
                        BetweenTailEnd(s, b))]>>
    \o BetweenMatchesFrom(s, BetweenTailEnd(s, b), B)

BetweenMatchAt(s, B, i) ==
  BetweenMatch(s, B, i, SetMin({x \in B : PhraseRun(s, i, x)}))

BetweenMatchesFrom(s, from, B) ==
  LET M == BetweenStarts(s, from, B)
  IN IF M = {} THEN <<>> ELSE BetweenMatchAt(s, B, SetMin(M))

\* The field a 'between' phrase is guessed to mean: <<>> when none
BetweenField(phrase) ==
  IF Includes(phrase, K_spend) \/ Includes(phrase, K_spent)
     \/ Includes(phrase, K_spending)
  THEN <<F_totalSpending>>
  ELSE IF Includes(phrase, K_visit) \/ Includes(phrase, K_visits)
          \/ Includes(phrase, K_times)
  THEN <<F_visitCount>>
  ELSE <<>>

\* The two pushes for the match m, the field guessed
BetweenPush(m, f) ==
  IF f = <<>> THEN <<>>
  ELSE <<Candidate(f[1], ">=", NumberOf(m.low), m.index, "between", <<>>),
         Candidate(f[1], "<=", NumberOf(m.high), m.index + 1, "between", <<>>)>>

\* The two conditions one "between" match pushes (none for another phrase)
BetweenPair(m) == BetweenPush(m, BetweenField(Trim(m.phrase)))

RECURSIVE Flatten(_)
Flatten(ss) == IF ss = <<>> THEN <<>> ELSE Head(ss) \o Flatten(Tail(ss))

\* The 'between' loop over the matches ms
BetweenLoop(ms) == Flatten([n \in 1..Len(ms) |-> BetweenPair(ms[n])])

\* The explicit 'between' loop
BetweenCandidates(s) == BetweenLoop(BetweenMatchesFrom(s, 0, BetweenTails(s)))

\* The blocks in source order, numberMatches collected
PushedWith(s, nms) ==
  SpendingCandidates(s, nms) \o VisitCandidates(s, nms)
    \o RecencyCandidates(s, nms) \o CountCandidates(s) \o BetweenCandidates(s)

\* The candidates in the order the blocks push them
PushedCandidates(s) == PushedWith(s, NumberMatches(s))

\* c put behind the candidates of the sorted rest whose index is not greater
InsertByIndex(rest, c) ==
  SubSeq(rest, 1, Cardinality({n \in 1..Len(rest) : rest[n].index <= c.index}))
    \o <<c>>
    \o SubSeq(rest, Cardinality({n \in 1..Len(rest) : rest[n].index <= c.index}) + 1,
              Len(rest))

\* conditionCandidates.sort((a, b) => a.index - b.index): a stable sort
RECURSIVE SortByIndex(_)
SortByIndex(cs) ==
  IF cs = <<>> THEN <<>>
  ELSE InsertByIndex(SortByIndex(SubSeq(cs, 1, Len(cs) - 1)), cs[Len(cs)])

\* GapConnector with includes('or') in place of /\bor\b/
GapConnectorSubstring(s, a, b) ==
  IF Includes(Trim(Substring(s, a.index, b.index)), K_or) THEN "OR" ELSE "AND"

\* The connector of the gap between two sorted candidates
GapConnector(s, a, b) ==
  IF TestWord(Trim(Substring(s, a.index, b.index)), K_or) THEN "OR" ELSE "AND"

\* connectors: one per pair of neighbours
Connectors(s, cs) ==
  IF Len(cs) > 1
  THEN [i \in 1..(Len(cs) - 1) |-> GapConnector(s, cs[i], cs[i + 1])]
  ELSE <<>>

\* TopLevelLogic without the test that no connector was derived
TopLevelLogicAnyCount(s, connectors) ==
  IF TestWord(s, K_or) /\ ~TestWord(s, K_and) THEN "OR" ELSE "AND"

\* The top-level logic
TopLevelLogic(s, connectors) ==
  IF connectors = <<>> /\ TestWord(s, K_or) /\ ~TestWord(s, K_and)
  THEN "OR"
  ELSE "AND"

Condition(c) == [field |-> c.field, operator |-> c.operator, value |-> c.value]

\* rules, the connectors derived
RulesWith(s, cs, connectors) ==
  [logic |-> TopLevelLogic(s, connectors),
   conditions |-> [i \in 1..Len(cs) |-> Condition(cs[i])],
   hasConnectors |-> Len(connectors) > 0,
   connectors |-> connectors]

\* rules as Stage A leaves it.  connectors is set only when it is not empty:
\* hasConnectors tells an absent field from a present one.
LocalRules(s, cs) == RulesWith(s, cs, Connectors(s, cs))

\* ---------------------------------------------------------------- prompts

T_customers_who == <<"C", "u", "s", "t", "o", "m", "e", "r", "s", " ", "w", "h", "o", " ">>

T_spent == <<"s", "p", "e", "n", "t", " ">>

T_spent_between == <<"s", "p", "e", "n", "t", " ", "b", "e", "t", "w", "e", "e", "n", " ">>

T_spend_a_lot == <<"s", "p", "e", "n", "d", " ", "a", " ", "l", "o", "t">>

T_visited == <<"v", "i", "s", "i", "t", "e", "d", " ">>

T_visited_between == <<"v", "i", "s", "i", "t", "e", "d", " ", "b", "e", "t", "w", "e", "e", "n", " ">>

T_times == <<" ", "t", "i", "m", "e", "s">>

T_came == <<"c", "a", "m", "e", " ">>

T_visits == <<" ", "v", "i", "s", "i", "t", "s">>

T_in_the_last == <<"i", "n", " ", "t", "h", "e", " ", "l", "a", "s", "t", " ">>

T_months == <<" ", "m", "o", "n", "t", "h", "s">>

T_days == <<" ", "d", "a", "y", "s">>

T_active_last_month == <<"a", "c", "t", "i", "v", "e", " ", "l", "a", "s", "t", " ", "m", "o", "n", "t", "h">>

T_email_count == <<"e", "m", "a", "i", "l", " ", "c", "o", "u", "n", "t", " ">>

T_visit_count == <<"v", "i", "s", "i", "t", " ", "c", "o", "u", "n", "t", " ">>

T_are_loyal == <<"a", "r", "e", " ", "l", "o", "y", "a", "l">>

T_over == <<"o", "v", "e", "r", " ">>

T_more_than == <<"m", "o", "r", "e", " ", "t", "h", "a", "n", " ">>

T_under == <<"u", "n", "d", "e", "r", " ">>

T_less_than == <<"l", "e", "s", "s", " ", "t", "h", "a", "n", " ">>

T_gt == <<">", " ">>

T_and == <<" ", "a", "n", "d", " ">>

T_or == <<" ", "o", "r", " ">>

\* Amounts, visit counts and recency numbers, as the user types them
SpendTokens ==
  <<<<"5", "0", "0">>,
    <<"1", "0", "0">>,
    <<"4", "9", ".", "5">>,
    <<"1", "0", "0", "0">>>>

VisitTokens ==
  <<<<"3">>,
    <<"5">>,
    <<"1", ".", "5">>,
    <<"1", "2">>>>

RecencyTokens ==
  <<<<"2">>,
    <<"1", "0">>,
    <<"2", ".", "5">>,
    <<"6">>>>

Amounts == {SpendTokens[i] : i \in 1..NumTokens}

Counts == {VisitTokens[i] : i \in 1..NumTokens}

Recencies == {RecencyTokens[i] : i \in 1..NumTokens}

Qualifiers == {<<>>, T_over, T_more_than, T_under, T_less_than}

\* One clause of a prompt: a phrase of one concept family
FirstClauses ==
  {T_spent \o q \o n : q \in Qualifiers, n \in Amounts}
    \cup {T_spent_between \o n \o T_and \o x : n \in Amounts, x \in Amounts}
    \cup {T_visited \o q \o n \o T_times : q \in Qualifiers, n \in Counts}
    \cup {T_visited_between \o n \o T_and \o VisitTokens[2] \o T_times : n \in Counts}
    \cup {T_came \o q \o n : q \in {<<>>, T_under, T_less_than}, n \in Counts}
    \cup {q \o n \o T_visits : q \in {T_over, T_under}, n \in Counts}
    \cup {T_in_the_last \o n \o u : n \in Recencies, u \in {T_months, T_days}}
    \cup {T_email_count \o q \o n : q \in {<<>>, T_over, T_gt}, n \in Counts}
    \cup {T_visit_count \o T_under \o n : n \in Counts}
    \cup {T_spend_a_lot, T_active_last_month, T_are_loyal}

\* The clause a second condition comes from
SecondClauses ==
  {T_visited \o q \o n \o T_times : q \in {T_more_than, T_under, T_over}, n \in Counts}
    \cup {T_spent \o q \o n : q \in {<<>>, T_over}, n \in Amounts}
    \cup {T_in_the_last \o n \o T_months : n \in Recencies}
    \cup {T_came \o T_under \o n : n \in Counts}
    \cup {T_email_count \o n : n \in Counts}
    \cup {T_are_loyal}

Leads == {<<>>, T_customers_who}

\* The prompts Stage A is checked on: one clause, or two joined by "and" / "or"
Prompts ==
  {l \o a : l \in Leads, a \in FirstClauses}
    \cup {l \o a \o j \o b :
            l \in Leads, a \in FirstClauses, j \in {T_and, T_or}, b \in SecondClauses}

\* The prompts of the concurrent calls: no condition, one, and two
FewPrompts ==
  {T_are_loyal,
   T_customers_who \o T_spent \o T_over \o SpendTokens[1],
   T_spent \o T_over \o SpendTokens[1] \o T_or \o T_visited \o T_more_than
     \o VisitTokens[1] \o T_times}

\* ---------------------------------------------------------------- state

VARIABLES
  env,          \* process.env: the provider flags, keys and endpoint URL
  calls,        \* the convertNaturalLanguageToRules calls in progress, by request slot
  ruleDoc,      \* the rules argument of the buildWhereClause call at hand
  whereClause,  \* <<>>, or what that call came to: a where object, or the throw
  now,          \* what new Date() reads inside that call
  customers,    \* the customer table: totalSpending and visitCount by customer id
  orders,       \* the order table: by order id, a row or NoRow
  request,      \* the order request being served and the transaction it runs
  ledger,       \* the customer table before any request, and the orders created
  inflight,     \* the order requests that overlap, by slot: what each read and where it is
  campaigns,    \* the campaign table: by campaign id, a row or NoCampaign
  logs,         \* the communication_log table: the rows in the order of their ids
  launches,     \* the launch and segment requests being served, by slot
  senders,      \* the sendCampaignMessages calls the requests of a slot started
  http          \* the HTTP request on its way through the middleware of the app

compilerVars == <<ruleDoc, whereClause, now>>

storeVars == <<customers, orders, request, ledger>>

campaignVars == <<campaigns, logs, launches, senders>>

\* What the conversion, compiler and single-request order models leave alone
otherVars == <<inflight, campaignVars, http>>

vars ==
  <<env, calls, ruleDoc, whereClause, now, customers, orders, request, ledger,
    inflight, campaigns, logs, launches, senders, http>>

\* The request slots: two requests may be in flight at once
CallIds == {1, 2}

Envs ==
  [enableProvider : BOOLEAN, providerFirstFlag : BOOLEAN, geminiKey : BOOLEAN,
   openaiKey : BOOLEAN, geminiUrl : BOOLEAN]

\* process.env.GEMINI_API_KEY || process.env.OPENAI_API_KEY, as a truth value
ApiKey(e) == e.geminiKey \/ e.openaiKey

ProviderFirst(e) == e.providerFirstFlag \/ (e.enableProvider /\ e.geminiKey)

ProviderName(e) ==
  IF e.geminiKey THEN "GEMINI" ELSE IF e.openaiKey THEN "OPENAI" ELSE "NONE"

\* The endpoint callProviderApi posts to; "none": it returns null
Endpoint(e) ==
  IF e.geminiUrl /\ e.geminiKey THEN "gemini"
  ELSE IF e.openaiKey THEN "openai"
  ELSE "none"

\* A request slot with no call in it.  Of a call: pc, where it stands; prompt;
\* candidates and rules, what Stage A built; mode ("first", "fallback"), attempt,
\* attempts and lastErr, the retry loop it is in or was in last; result, <<>> or
\* the document returned.  extracted records that some attempt of the call
\* handed a JSON value to the call site, ranFirst that the call entered the
\* provider-first block, and yielded what the attempt that has just settled
\* came to ("none" once its backoff is over).
IdleCall ==
  [pc |-> "idle", prompt |-> <<>>, candidates |-> <<>>, rules |-> <<>>,
   mode |-> "none", attempt |-> 0, attempts |-> 0, lastErr |-> "none",
   extracted |-> FALSE, result |-> <<>>,
   ranFirst |-> FALSE, yielded |-> "none"]

\* ---------------------------------------------------------------- provider

FirstAttempts == 3

FallbackAttempts == 2

SampleCondition(f) == [field |-> f, operator |-> ">", value |-> Scale]

\* JSON values a provider's text may carry.  "falsy": null, 0, false or "".
JsonValues ==
  {[t |-> "falsy"],
   [t |-> "number"],
   [t |-> "object", logic |-> "XOR",
    conditions |-> <<SampleCondition(F_totalSpending)>>,
    hasConnectors |-> FALSE, connectors |-> <<>>],
   [t |-> "object", logic |-> "AND",
    conditions |-> <<[field |-> F_totalSpending, operator |-> ">"]>>,
    hasConnectors |-> FALSE, connectors |-> <<>>],
   [t |-> "object", logic |-> "AND", conditions |-> <<>>,
    hasConnectors |-> FALSE, connectors |-> <<>>],
   [t |-> "object", logic |-> "AND",
    conditions |-> <<SampleCondition(F_totalSpending)>>,
    hasConnectors |-> FALSE, connectors |-> <<>>],
   [t |-> "object", logic |-> "OR",
    conditions |-> <<SampleCondition(F_totalSpending), SampleCondition(F_visitCount)>>,
    hasConnectors |-> TRUE, connectors |-> <<"OR">>],
   [t |-> "object", logic |-> "AND",
    conditions |-> <<SampleCondition(F_visitCount)>>,
    hasConnectors |-> TRUE, connectors |-> <<"AND", "OR">>]}

\* What one callProviderApi attempt yields: a rejection (network error, timeout,
\* non-2xx), null (no endpoint configured), or a text: empty, without JSON in
\* it, or with a JSON value
AttemptOutcomes(e) ==
  IF Endpoint(e) = "none" THEN {[kind |-> "null"]}
  ELSE {[kind |-> "rejects"], [kind |-> "empty"], [kind |-> "noJson"]}
         \cup {[kind |-> "json", value |-> v] : v \in JsonValues}

\* ConditionSchema
ConditionValid(c) == DOMAIN c = {"field", "operator", "value"}

\* RulesSchema.parse(v) does not throw
SchemaValid(v) ==
  /\ v.t = "object"
  /\ v.logic \in {"AND", "OR"}
  /\ \A i \in 1..Len(v.conditions) : ConditionValid(v.conditions[i])
  /\ \A i \in 1..Len(v.connectors) : v.connectors[i] \in {"AND", "OR"}

\* The document a call returns from an accepted provider response
ProviderDocument(v, e) ==
  [logic |-> v.logic, conditions |-> v.conditions,
   hasConnectors |-> v.hasConnectors, connectors |-> v.connectors,
   provider |-> ProviderName(e)]

\* { ...rules, provider: null }
LocalDocument(rules) ==
  [logic |-> rules.logic, conditions |-> rules.conditions,
   hasConnectors |-> rules.hasConnectors, connectors |-> rules.connectors,
   provider |-> "null"]

\* The heuristics look weak: no condition, or exactly one
Weak(rules) ==
  ~(Len(rules.conditions) > 0)
    \/ (Len(rules.conditions) > 0 /\ Len(rules.conditions) < 2)

\* callProviderForRulesWithRetries(prompt, apiKey, n) up to its first await
StartRetries(call, mode, n) ==
  [call EXCEPT !.pc = "awaitProvider", !.mode = mode, !.attempts = n,
               !.attempt = 1, !.lastErr = "none",
               !.ranFirst = (call.ranFirst \/ mode = "first")]

\* ReturnLocal with the document built field by field, connectors forgotten
ReturnLocalWithoutConnectors(call) ==
  [call EXCEPT !.pc = "done",
               !.result = <<[LocalDocument(call.rules) EXCEPT
                               !.hasConnectors = FALSE, !.connectors = <<>>]>>]

\* The final return
ReturnLocal(call) ==
  [call EXCEPT !.pc = "done", !.result = <<LocalDocument(call.rules)>>]

\* The provider-fallback block and the final return
FallbackOrReturn(call, e) ==
  IF Weak(call.rules) /\ e.enableProvider /\ ApiKey(e)
  THEN StartRetries(call, "fallback", FallbackAttempts)
  ELSE ReturnLocal(call)

\* Control leaves a provider block without a return
AfterProviderBlock(call, e) ==
  IF call.mode = "first" THEN FallbackOrReturn(call, e) ELSE ReturnLocal(call)

\* A provider block without its try/catch: the error leaves the function
RethrowProviderError(call, e) == [call EXCEPT !.pc = "threw"]

\* catch (err) { console.warn(...) } around a provider block
CatchProviderError(call, e) == AfterProviderBlock(call, e)

\* The call once Stage A has run: the candidates sorted, rules built
LocalCall(p, lowercasePrompt, cs) ==
  [IdleCall EXCEPT !.prompt = p, !.candidates = cs,
                   !.rules = LocalRules(lowercasePrompt, cs)]

\* ProviderBlocks with the provider-first block not gated by enableProvider
ProviderBlocksWithoutEnable(call, e) ==
  IF ApiKey(e) /\ (e.providerFirstFlag \/ e.geminiKey)
  THEN StartRetries(call, "first", FirstAttempts)
  ELSE FallbackOrReturn(call, e)

\* The provider blocks and the final return, up to the first await
ProviderBlocks(call, e) ==
  IF e.enableProvider /\ ApiKey(e) /\ ProviderFirst(e)
  THEN StartRetries(call, "first", FirstAttempts)
  ELSE FallbackOrReturn(call, e)

\* Stage A and the provider flags, up to the first await or the return
Invoke(p, e) ==
  ProviderBlocks(
    LocalCall(p, ToLowerCase(p), SortByIndex(PushedCandidates(ToLowerCase(p)))), e)

\* OnExtracted with RulesSchema.parse inside the try block of the retry loop:
\* a document it rejects sends the loop to its backoff
OnExtractedRetrying(call, v, e) ==
  IF ~SchemaValid(v) THEN [call EXCEPT !.pc = "backoff", !.lastErr = "error"]
  ELSE IF Len(v.conditions) > 0
  THEN [call EXCEPT !.pc = "done", !.result = <<ProviderDocument(v, e)>>]
  ELSE AfterProviderBlock(call, e)

\* RulesSchema.parse and the acceptance test on what the retries returned
OnExtracted(call, v, e) ==
  IF ~SchemaValid(v) THEN CatchProviderError(call, e)
  ELSE IF Len(v.conditions) > 0
  THEN [call EXCEPT !.pc = "done", !.result = <<ProviderDocument(v, e)>>]
  ELSE AfterProviderBlock(call, e)

\* What an attempt came to: an error or a text without JSON in it, a JSON
\* value that is falsy, one that RulesSchema rejects, or one that it accepts
Yielded(o) ==
  IF o.kind # "json" THEN "error"
  ELSE IF o.value.t = "falsy" THEN "falsyJson"
  ELSE IF ~SchemaValid(o.value) THEN "invalidJson"
  ELSE "validJson"

\* One pass of the try block of callProviderForRulesWithRetries
OnAttempt(call, o, e) ==
  IF o.kind = "json" /\ o.value.t # "falsy"
  THEN OnExtracted([call EXCEPT !.extracted = TRUE, !.yielded = Yielded(o)], o.value, e)
  ELSE [call EXCEPT !.pc = "backoff", !.lastErr = "error", !.yielded = Yielded(o)]

\* OnBackoff with the loop test attempt <= attempts: one pass too many
OnBackoffOneMore(call, e) ==
  IF call.attempt <= call.attempts
  THEN [call EXCEPT !.pc = "awaitProvider", !.attempt = call.attempt + 1,
                    !.yielded = "none"]
  ELSE CatchProviderError([call EXCEPT !.yielded = "none"], e)

\* After the backoff timer: the next pass of the loop, or throw lastErr
OnBackoff(call, e) ==
  IF call.attempt < call.attempts
  THEN [call EXCEPT !.pc = "awaitProvider", !.attempt = call.attempt + 1,
                    !.yielded = "none"]
  ELSE CatchProviderError([call EXCEPT !.yielded = "none"], e)

\* ---------------------------------------------------------------- rule documents

\* JavaScript values as a rules document read from a request body or a stored
\* JSON blob holds them, and the two a conversion adds: undefined and NaN
JsNull == [t |-> "null"]

Undefined == [t |-> "undefined"]

NaN == [t |-> "NaN"]

Num(n) == [t |-> "number", n |-> n]

Str(s) == [t |-> "string", s |-> s]

\* An object with the properties field, operator and value
Entry(f, op, v) == [t |-> "object", props |-> [field |-> f, operator |-> op, value |-> v]]

\* An object with no property at all, and one without a value
EmptyEntry == [t |-> "object", props |-> <<>>]

EntryWithoutValue(f, op) == [t |-> "object", props |-> [field |-> f, operator |-> op]]

\* x.k does not throw: x is neither null nor undefined
HasProperties(x) == x.t \notin {"null", "undefined"}

\* x.k for an x that has properties: primitives have none of these
Get(x, k) ==
  IF x.t = "object" /\ k \in DOMAIN x.props THEN x.props[k] ELSE Undefined

\* ^\d+(\.\d+)?$ on a string
IsNumeral(s) == Len(s) > 0 /\ IsDigit(s[1]) /\ NumberEnd(s, 0) = Len(s)

\* Number(v): the strings of the model are numerals, blank, or hold a letter
Number(v) ==
  IF v.t = "number" THEN v
  ELSE IF v.t = "null" THEN Num(0)
  ELSE IF v.t = "string"
  THEN (IF Trim(v.s) = <<>> THEN Num(0)
        ELSE IF IsNumeral(Trim(v.s)) THEN Num(NumberOf(Trim(v.s)))
        ELSE NaN)
  ELSE NaN

\* A Date: the day of the month it falls on and the time of day.  Day 0 is the
\* last day of the month before, day -1 the one before that, and so on; an
\* invalid Date has NaN for its time value.
Date(d, time) == [t |-> "Date", date |-> d, time |-> time]

InvalidDate == [t |-> "InvalidDate"]

\* ToIntegerOrInfinity of a finite Number: the fraction dropped, toward zero
Truncate(n) == IF n >= 0 THEN n \div Scale ELSE -((-n) \div Scale)

\* daysAgo.setDate(daysAgo.getDate() - Number(condition.value))
DaysAgo(date, value) ==
  IF Number(value).t = "number"
  THEN Date(Truncate(date.date * Scale - Number(value).n), date.time)
  ELSE InvalidDate

\* ---------------------------------------------------------------- buildWhereClause

F_email == <<"e", "m", "a", "i", "l">>

\* A conditionWhere object: <<>> is {}, and <<[key, op, arg]>> is { key: { op: arg } }
NoConstraint == <<>>

Constraint(key, op, arg) == <<[key |-> key, op |-> op, arg |-> arg]>>

\* case 'totalSpending'
TotalSpendingWhere(operator, value) ==
  IF operator = Str(">") THEN Constraint(F_totalSpending, "gt", Number(value))
  ELSE IF operator = Str("<") THEN Constraint(F_totalSpending, "lt", Number(value))
  ELSE IF operator = Str(">=") THEN Constraint(F_totalSpending, "gte", Number(value))
  ELSE IF operator = Str("<=") THEN Constraint(F_totalSpending, "lte", Number(value))
  ELSE NoConstraint

\* case 'visitCount' with the two operators of totalSpending it lacks
VisitCountWhereAllOperators(operator, value) ==
  IF operator = Str(">") THEN Constraint(F_visitCount, "gt", Number(value))
  ELSE IF operator = Str("<") THEN Constraint(F_visitCount, "lt", Number(value))
  ELSE IF operator = Str(">=") THEN Constraint(F_visitCount, "gte", Number(value))
  ELSE IF operator = Str("<=") THEN Constraint(F_visitCount, "lte", Number(value))
  ELSE NoConstraint

\* case 'visitCount'
VisitCountWhere(operator, value) ==
  IF operator = Str(">") THEN Constraint(F_visitCount, "gt", Number(value))
  ELSE IF operator = Str("<") THEN Constraint(F_visitCount, "lt", Number(value))
  ELSE NoConstraint

\* case 'lastVisit'
LastVisitWhere(operator, value, date) ==
  IF operator = Str("before") THEN Constraint(F_lastVisit, "lt", DaysAgo(date, value))
  ELSE IF operator = Str("after") THEN Constraint(F_lastVisit, "gt", DaysAgo(date, value))
  ELSE NoConstraint

\* case 'email'
EmailWhere(operator, value) ==
  IF operator = Str("contains") THEN Constraint(F_email, "contains", value)
  ELSE NoConstraint

\* switch (condition.field)
FieldWhere(field, operator, value, date) ==
  IF field = Str(F_totalSpending) THEN TotalSpendingWhere(operator, value)
  ELSE IF field = Str(F_visitCount) THEN VisitCountWhere(operator, value)
  ELSE IF field = Str(F_lastVisit) THEN LastVisitWhere(operator, value, date)
  ELSE IF field = Str(F_email) THEN EmailWhere(operator, value)
  ELSE NoConstraint

\* The callback of rules.conditions.map, for a condition that has properties
ConditionWhere(condition, date) ==
  FieldWhere(Get(condition, "field"), Get(condition, "operator"),
             Get(condition, "value"), date)

\* rules.conditions && Array.isArray(rules.conditions)
HasConditions(rules) == "conditions" \in DOMAIN rules

\* A where object: {} has no combinator, { AND: cs } and { OR: cs } have their clauses
Where(combinator, clauses) == [combinator |-> combinator, clauses |-> clauses]

EmptyWhere == Where("none", <<>>)

Returns(where) == [threw |-> FALSE, where |-> where]

\* condition.field of a condition that is null or undefined
TypeError == [threw |-> TRUE, where |-> EmptyWhere]

\* Combinator reading the first connector where connectors are present
CombinatorFromConnectors(rules) ==
  IF rules.hasConnectors /\ Len(rules.connectors) > 0 /\ rules.connectors[1] = "OR"
  THEN "OR"
  ELSE IF rules.hasConnectors /\ Len(rules.connectors) > 0 THEN "AND"
  ELSE IF rules.logic = "OR" THEN "OR" ELSE "AND"

\* where.OR = conditions or where.AND = conditions
Combinator(rules) == IF rules.logic = "OR" THEN "OR" ELSE "AND"

\* buildWhereClause(rules), new Date() reading date
BuildWhereClause(rules, date) ==
  IF ~HasConditions(rules) THEN Returns(EmptyWhere)
  ELSE IF \E i \in 1..Len(rules.conditions) : ~HasProperties(rules.conditions[i])
  THEN TypeError
  ELSE Returns(Where(Combinator(rules),
         [i \in 1..Len(rules.conditions) |-> ConditionWhere(rules.conditions[i], date)]))

\* ---------------------------------------------------------------- the customers a where object matches

\* a < b for two Dates; no Date is before or after an invalid one
Earlier(a, b) ==
  /\ a.t = "Date"
  /\ b.t = "Date"
  /\ (a.date < b.date \/ (a.date = b.date /\ a.time < b.time))

\* x op n for a column value x and a Number; nothing compares with NaN
Compares(x, op, arg) ==
  /\ arg.t = "number"
  /\ IF op = "gt" THEN x > arg.n
     ELSE IF op = "lt" THEN x < arg.n
     ELSE IF op = "gte" THEN x >= arg.n
     ELSE x <= arg.n

\* The row satisfies { key: { op: arg } }
ConstraintMatches(c, row) ==
  IF c.key = F_totalSpending THEN Compares(row.totalSpending, c.op, c.arg)
  ELSE IF c.key = F_visitCount THEN Compares(row.visitCount * Scale, c.op, c.arg)
  ELSE IF c.key = F_lastVisit
  THEN (IF c.op = "lt" THEN Earlier(row.lastVisit, c.arg) ELSE Earlier(c.arg, row.lastVisit))
  ELSE c.arg.t = "string" /\ Includes(row.email, c.arg.s)

\* The row satisfies a conditionWhere object; {} holds of every row
ClauseMatches(clause, row) ==
  \A i \in 1..Len(clause) : ConstraintMatches(clause[i], row)

\* The row satisfies the where object: AND over no clause holds of every row,
\* OR over no clause of none
Matches(where, row) ==
  IF where.combinator = "OR"
  THEN \E i \in 1..Len(where.clauses) : ClauseMatches(where.clauses[i], row)
  ELSE \A i \in 1..Len(where.clauses) : ClauseMatches(where.clauses[i], row)

\* Customer rows to try a where object on
Rows ==
  [totalSpending : {0, 2 * Scale, 3 * Scale},
   visitCount : {0, 2, 3},
   lastVisit : {Date(-2, 0), Date(12, 1), Date(13, 0), Date(13, 1), Date(14, 1)},
   email : {<<"a", "b">>, <<"c">>}]

\* prisma.customer.findMany({ where }): the rows of Rows it returns
Audience(where) == {row \in Rows : Matches(where, row)}

\* ---------------------------------------------------------------- documents to compile

F_emailCount == <<"e", "m", "a", "i", "l">> \o F_CountSuffix

EntryFields == {F_totalSpending, F_visitCount, F_lastVisit, F_email, F_emailCount}

EntryOperators == {">", "<", ">=", "<=", "=", "before", "after", "contains"}

\* 2, 2.5, "3" and "a"
EntryValues == {Num(2 * Scale), Num((5 * Scale) \div 2), Str(<<"3">>), Str(<<"a">>)}

\* What may stand first in conditions: every field, operator and value, and the
\* malformed entries: null, a number, {}, and an object without a value
FirstEntries ==
  {Entry(Str(f), Str(op), v) : f \in EntryFields, op \in EntryOperators, v \in EntryValues}
    \cup {JsNull, Num(Scale), EmptyEntry, EntryWithoutValue(Str(F_totalSpending), Str(">"))}

\* What may stand second
SecondEntries ==
  {Entry(Str(F_totalSpending), Str(">"), Num(2 * Scale)),
   Entry(Str(F_visitCount), Str("<"), Num(3 * Scale)),
   Entry(Str(F_lastVisit), Str("after"), Num(2 * Scale)),
   Entry(Str(F_emailCount), Str(">"), Num(Scale)),
   JsNull}

ConditionLists ==
  {<<>>} \cup {<<a>> : a \in FirstEntries}
         \cup {<<a, b>> : a \in FirstEntries, b \in SecondEntries}

\* The connectors of a document: absent, or a sequence
ConnectorChoices ==
  {[hasConnectors |-> FALSE, connectors |-> <<>>],
   [hasConnectors |-> TRUE, connectors |-> <<"AND">>],
   [hasConnectors |-> TRUE, connectors |-> <<"OR">>]}

\* Rule documents as a request body or a stored segment holds them; the last
\* kind has no conditions array
RuleDocs ==
  {[logic |-> l, conditions |-> cs, hasConnectors |-> k.hasConnectors,
    connectors |-> k.connectors] :
      l \in {"AND", "OR", "XOR"}, cs \in ConditionLists, k \in ConnectorChoices}
    \cup {[logic |-> l, hasConnectors |-> FALSE, connectors |-> <<>>] : l \in {"AND", "OR"}}

\* The document convertNaturalLanguageToRules returned, as buildWhereClause reads it
RuleDocOf(doc) ==
  [logic |-> doc.logic,
   conditions |-> [i \in 1..Len(doc.conditions) |->
                     Entry(Str(doc.conditions[i].field), Str(doc.conditions[i].operator),
                           Num(doc.conditions[i].value))],
   hasConnectors |-> doc.hasConnectors, connectors |-> doc.connectors]

\* The days of the month and times of day new Date() may read
Nows == {Date(d, time) : d \in {1, 15}, time \in {0, 1}}

\* No buildWhereClause call at hand
CompilerIdle ==
  /\ ruleDoc = [logic |-> "AND", conditions |-> <<>>, hasConnectors |-> FALSE,
                connectors |-> <<>>]
  /\ whereClause = <<>>
  /\ now = Date(1, 0)


\* ---------------------------------------------------------------- orders and customers

\* The orders that may ever be created
MaxOrders == 2

OrderIds == 1..MaxOrders

CustomerIds == {1, 2}

\* OrderStatus, of which only COMPLETED counts toward totalSpending
OrderStatuses == {"PENDING", "PROCESSING", "COMPLETED"}

\* The totals a create request may carry, in 1/Scale units
OrderTotals == {Scale, 3 * Scale}

\* findUnique found nothing under the id
NoRow == [customerId |-> 0, total |-> 0, status |-> "none"]

\* The customer table before the first request
PriorCustomers ==
  [c \in CustomerIds |-> [totalSpending |-> (c - 1) * 5 * Scale, visitCount |-> c - 1]]

IdleRequest ==
  [pc |-> "idle", kind |-> "none", id |-> 0, customerId |-> 0, total |-> 0,
   status |-> "none", current |-> NoRow, txOrders |-> <<>>, txCustomers |-> <<>>]

\* No order request has been made
StoreIdle ==
  /\ customers = PriorCustomers
  /\ orders = [o \in OrderIds |-> NoRow]
  /\ request = IdleRequest
  /\ ledger = [prior |-> PriorCustomers, created |-> [c \in CustomerIds |-> 0]]

RECURSIVE SumOver(_, _)
SumOver(f, S) ==
  IF S = {} THEN 0
  ELSE f[CHOOSE x \in S : TRUE] + SumOver(f, S \ {CHOOSE x \in S : TRUE})

\* The id the next order is created under: ids are never used twice
NextOrderId(book) == SumOver(book.created, CustomerIds) + 1

\* getOrderAmount(order)
GetOrderAmount(order) == order.total

\* A request past its checks, about to run its transaction on the tables as
\* they stand
BeginRequest(kind, id, customerId, total, status, current, os, cs) ==
  [pc |-> "order", kind |-> kind, id |-> id, customerId |-> customerId,
   total |-> total, status |-> status, current |-> current,
   txOrders |-> os, txCustomers |-> cs]

\* tx.order.create, tx.order.update or tx.order.delete, by the kind of request
OrderWrite(req) ==
  IF req.kind = "create"
  THEN [req.txOrders EXCEPT ![req.id] =
          [customerId |-> req.customerId, total |-> req.total, status |-> req.status]]
  ELSE IF req.kind = "patch"
  THEN [req.txOrders EXCEPT ![req.id].status = req.status]
  ELSE [req.txOrders EXCEPT ![req.id] = NoRow]

\* The increment of totalSpending a request asks for
SpendingIncrement(req) ==
  IF req.kind = "create"
  THEN (IF req.status = "COMPLETED" THEN req.total ELSE 0)
  ELSE IF req.kind = "patch"
  THEN (IF (req.current.status = "COMPLETED") # (req.status = "COMPLETED")
        THEN (IF req.status = "COMPLETED" THEN GetOrderAmount(req.current)
              ELSE -GetOrderAmount(req.current))
        ELSE 0)
  ELSE (IF req.current.status = "COMPLETED" THEN -GetOrderAmount(req.current) ELSE 0)

\* tx.customer.update, where the request makes one
CustomerWrite(req) ==
  [req.txCustomers EXCEPT
     ![req.customerId].totalSpending = @ + SpendingIncrement(req),
     ![req.customerId].visitCount = @ + (IF req.kind = "create" THEN 1 ELSE 0)]

\* The order table after an error without a transaction around the writes:
\* what was written stays
OrdersKeptOnError(committed, staged) == staged

\* The order table after an error inside prisma.$transaction: rolled back
OrdersOnError(committed, staged) == committed

\* The orders created, counted by customer
Created(book, req) ==
  IF req.kind = "create"
  THEN [book EXCEPT !.created[req.customerId] = @ + 1]
  ELSE book

\* ---------------------------------------------------------------- the segment compiler

\* switch (condition.field) of buildWhereClauseForSegment: it has no case for
\* lastVisit
SegmentFieldWhere(field, operator, value) ==
  IF field = Str(F_totalSpending) THEN TotalSpendingWhere(operator, value)
  ELSE IF field = Str(F_visitCount) THEN VisitCountWhere(operator, value)
  ELSE IF field = Str(F_email) THEN EmailWhere(operator, value)
  ELSE NoConstraint

\* buildWhereClauseForSegment(rules)
BuildWhereClauseForSegment(rules) ==
  IF ~HasConditions(rules) THEN Returns(EmptyWhere)
  ELSE IF \E i \in 1..Len(rules.conditions) : ~HasProperties(rules.conditions[i])
  THEN TypeError
  ELSE Returns(Where(Combinator(rules),
         [i \in 1..Len(rules.conditions) |->
            SegmentFieldWhere(Get(rules.conditions[i], "field"),
                              Get(rules.conditions[i], "operator"),
                              Get(rules.conditions[i], "value"))]))

\* ---------------------------------------------------------------- campaigns and communication logs

\* The ids a campaign may be created under
CampaignIds == {1}

\* The communication logs that may ever be created
MaxLogs == 2

\* The slots of launch and segment requests: two may be in flight at once
LaunchSlots == {1, 2}

\* process.env.VENDOR_BATCH_SIZE: one or two messages a batch, or the default
BatchSizes == {1, 2, 50}

\* Rules that match every customer, the customers who spent more than 2, and
\* the customers with more than 3 visits
EveryoneRules ==
  [logic |-> "AND", conditions |-> <<>>, hasConnectors |-> FALSE, connectors |-> <<>>]

SpendersRules ==
  [logic |-> "AND",
   conditions |-> <<Entry(Str(F_totalSpending), Str(">"), Num(2 * Scale))>>,
   hasConnectors |-> FALSE, connectors |-> <<>>]

RegularsRules ==
  [logic |-> "AND",
   conditions |-> <<Entry(Str(F_visitCount), Str(">"), Num(3 * Scale))>>,
   hasConnectors |-> FALSE, connectors |-> <<>>]

CampaignRules == {EveryoneRules, SpendersRules, RegularsRules}

\* The row of customer c as a where object is matched against it
CustomerRow(cs, c) ==
  [totalSpending |-> cs[c].totalSpending, visitCount |-> cs[c].visitCount,
   lastVisit |-> Date(12, 1), email |-> <<"a", "b">>]

\* getAudienceFromRules(rules): the ids of the customers found
GetAudienceFromRules(rules, cs, date) ==
  {c \in CustomerIds : Matches(BuildWhereClause(rules, date).where, CustomerRow(cs, c))}

\* prisma.customer.findMany({ where: whereClause }) of POST /segments
SegmentAudience(rules, cs) ==
  {c \in CustomerIds : Matches(BuildWhereClauseForSegment(rules).where, CustomerRow(cs, c))}

\* The members of a set of numbers, smallest first
RECURSIVE Ascending(_)
Ascending(S) ==
  IF S = {} THEN <<>>
  ELSE <<SetMin(S)>> \o Ascending(S \ {SetMin(S)})

\* No campaign under the id
NoCampaign == [status |-> "none", audienceSize |-> 0, rules |-> EveryoneRules]

\* A campaign as prisma.campaign.create makes it
Draft(rules, audienceSize) ==
  [status |-> "DRAFT", audienceSize |-> audienceSize, rules |-> rules]

\* A communication log as createMany makes it.  timers counts the vendor's
\* callbacks on their way; accepted and receipt record that the vendor took
\* the message and that a delivery receipt was written.
Log(campaignId, customerId) ==
  [campaignId |-> campaignId, customerId |-> customerId, status |-> "PENDING",
   timers |-> 0, accepted |-> FALSE, receipt |-> FALSE]

IdleLaunch ==
  [pc |-> "idle", kind |-> "none", id |-> 0, audience |-> {}, written |-> 0]

IdleSender ==
  [pc |-> "idle", campaignId |-> 0, pendingLogs |-> <<>>, idx |-> 0,
   acceptedIds |-> <<>>, batchSize |-> 0]

\* No campaign has been created
CampaignIdle ==
  /\ campaigns = [c \in CampaignIds |-> NoCampaign]
  /\ logs = <<>>
  /\ launches = [s \in LaunchSlots |-> IdleLaunch]
  /\ senders = [s \in LaunchSlots |-> IdleSender]

\* The smallest id no campaign has; 0 if there is none
NextCampaignId(cs) ==
  IF \E c \in CampaignIds : cs[c] = NoCampaign
  THEN SetMin({c \in CampaignIds : cs[c] = NoCampaign})
  ELSE 0

\* The two tables a launch writes
Tables(cs, ls) == [campaigns |-> cs, logs |-> ls]

\* tx.campaign.update({ where: { id }, data: { status: ACTIVE, audienceSize } })
CampaignUpdate(t, l) ==
  [t EXCEPT !.campaigns[l.id].status = "ACTIVE",
            !.campaigns[l.id].audienceSize = Cardinality(l.audience)]

\* tx.communicationLog.createMany: one PENDING log per customer of the audience
LogCreateMany(t, l) ==
  [t EXCEPT !.logs = @ \o [i \in 1..Cardinality(l.audience) |->
                            Log(l.id, Ascending(l.audience)[i])]]

\* The n-th write of the transaction: the launch route updates the campaign
\* and then creates the logs, POST /segments creates the logs first
LaunchWrite(t, l, n) ==
  IF (l.kind = "launch") = (n = 1) THEN CampaignUpdate(t, l) ELSE LogCreateMany(t, l)

\* The tables with the writes the transaction has made so far
LaunchWrites(t, l) ==
  IF l.written = 0 THEN t
  ELSE IF l.written = 1 THEN LaunchWrite(t, l, 1)
  ELSE LaunchWrite(LaunchWrite(t, l, 1), l, 2)

\* The tables after an error without a transaction around the writes: what
\* was written stays
LaunchKeptOnError(committed, staged) == staged

\* The tables after an error inside prisma.$transaction: rolled back
LaunchOnError(committed, staged) == committed

\* The ids of the PENDING logs of a campaign, in the order of findMany
PendingLogs(ls, campaignId) ==
  Ascending({i \in 1..Len(ls) : ls[i].campaignId = campaignId /\ ls[i].status = "PENDING"})

\* The loop of sendCampaignMessages goes on to its next log, or is over
Advance(sd) ==
  IF sd.idx = Len(sd.pendingLogs)
  THEN [sd EXCEPT !.pc = "returned", !.batchSize = 0]
  ELSE [sd EXCEPT !.pc = "post", !.idx = @ + 1]

\* if (acceptedIds.length >= batchSize || idx === pendingLogs.length - 1)
\*   if (acceptedIds.length > 0)
FlushOrAdvance(sd) ==
  IF (Len(sd.acceptedIds) >= sd.batchSize \/ sd.idx = Len(sd.pendingLogs))
     /\ Len(sd.acceptedIds) > 0
  THEN [sd EXCEPT !.pc = "flush"]
  ELSE Advance(sd)

\* The flush with its batch gone missing: the accepted ids are dropped
FlushDropped(ls, ids) == ls

\* updateMany({ where: { id: { in: acceptedIds } }, data: { status: SENT } })
Flush(ls, ids) ==
  [i \in 1..Len(ls) |->
     IF \E k \in 1..Len(ids) : ids[k] = i THEN [ls[i] EXCEPT !.status = "SENT"] ELSE ls[i]]

\* ---------------------------------------------------------------- the app's middleware

\* No request; NODE_ENV and JWT_SECRET are those of the server
IdleHttp ==
  [pc |-> "idle", nodeEnv |-> "development", jwtSecret |-> TRUE, mount |-> "none",
   route |-> "none", token |-> "none", prompt |-> "none", status |-> 0,
   passed |-> <<>>]

\* The slots of order requests that overlap
OverlapSlots == {1, 2}

\* Nothing but conversions, compilations and one order request at a time
OthersIdle ==
  /\ inflight = [s \in OverlapSlots |-> IdleRequest]
  /\ CampaignIdle
  /\ http = IdleHttp

\* ---------------------------------------------------------------- actions

\* A request arrives with prompt p in its body
Receive(c, p) ==
  /\ calls[c].pc = "idle"
  /\ calls' = [calls EXCEPT ![c] = [IdleCall EXCEPT !.pc = "received", !.prompt = p]]
  /\ UNCHANGED <<env, compilerVars, storeVars, otherVars>>

\* Call with conditionCandidates hoisted out of the function: the array still
\* holds what the calls not yet answered pushed
CallWithSharedCandidates(c) ==
  /\ calls[c].pc = "received"
  /\ calls' =
       [calls EXCEPT ![c] =
          ProviderBlocks(
            LocalCall(calls[c].prompt, ToLowerCase(calls[c].prompt),
              SortByIndex(
                Flatten([d \in 1..Cardinality(CallIds) |->
                           IF d = c THEN <<>> ELSE calls[d].candidates])
                  \o PushedCandidates(ToLowerCase(calls[c].prompt)))),
            env)]
  /\ UNCHANGED <<env, compilerVars, storeVars, otherVars>>

\* The route handler calls convertNaturalLanguageToRules(prompt)
Call(c) ==
  /\ calls[c].pc = "received"
  /\ calls' = [calls EXCEPT ![c] = Invoke(calls[c].prompt, env)]
  /\ UNCHANGED <<env, compilerVars, storeVars, otherVars>>

\* The awaited callProviderApi settles
ProviderSettles(c, o) ==
  /\ calls[c].pc = "awaitProvider"
  /\ o \in AttemptOutcomes(env)
  /\ calls' = [calls EXCEPT ![c] = OnAttempt(calls[c], o, env)]
  /\ UNCHANGED <<env, compilerVars, storeVars, otherVars>>

\* The backoff timer fires
BackoffElapses(c) ==
  /\ calls[c].pc = "backoff"
  /\ calls' = [calls EXCEPT ![c] = OnBackoff(calls[c], env)]
  /\ UNCHANGED <<env, compilerVars, storeVars, otherVars>>

\* The route handler sends the returned rules; the slot is free again
Respond(c) ==
  /\ calls[c].pc = "done"
  /\ calls' = [calls EXCEPT ![c] = IdleCall]
  /\ UNCHANGED <<env, compilerVars, storeVars, otherVars>>

Init ==
  /\ env \in Envs
  /\ calls = [c \in CallIds |-> IdleCall]
  /\ CompilerIdle
  /\ StoreIdle
  /\ OthersIdle

Next ==
  \/ \E c \in CallIds, p \in FewPrompts : Receive(c, p)
  \/ \E c \in CallIds : Call(c)
  \/ \E c \in CallIds, o \in AttemptOutcomes(env) : ProviderSettles(c, o)
  \/ \E c \in CallIds : BackoffElapses(c)
  \/ \E c \in CallIds : Respond(c)

Spec == Init /\ [][Next]_vars

\* Stage A alone: no provider is configured, and one request, holding any of
\* the prompts, is about to make its call
InitLocal ==
  /\ env = [enableProvider |-> FALSE, providerFirstFlag |-> FALSE,
            geminiKey |-> FALSE, openaiKey |-> FALSE, geminiUrl |-> FALSE]
  /\ \E p \in Prompts :
       calls = [c \in CallIds |->
                 IF c = 1 THEN [IdleCall EXCEPT !.pc = "received", !.prompt = p]
                 ELSE IdleCall]
  /\ CompilerIdle
  /\ StoreIdle
  /\ OthersIdle

NextLocal == Call(1)

SpecLocal == InitLocal /\ [][NextLocal]_vars

\* ---------------------------------------------------------------- compiling a document

\* A caller hands its rules to buildWhereClause
BuildWhere ==
  /\ whereClause = <<>>
  /\ whereClause' = <<BuildWhereClause(ruleDoc, now)>>
  /\ UNCHANGED <<env, calls, ruleDoc, now, storeVars, otherVars>>

InitCompile ==
  /\ env = [enableProvider |-> FALSE, providerFirstFlag |-> FALSE,
            geminiKey |-> FALSE, openaiKey |-> FALSE, geminiUrl |-> FALSE]
  /\ calls = [c \in CallIds |-> IdleCall]
  /\ ruleDoc \in RuleDocs
  /\ whereClause = <<>>
  /\ now \in Nows
  /\ StoreIdle
  /\ OthersIdle

NextCompile == BuildWhere

SpecCompile == InitCompile /\ [][NextCompile]_vars

\* ---------------------------------------------------------------- order requests

\* POST /orders, past its validation: the customer exists and the total agrees
\* with the items
PostOrder(customerId, total, status) ==
  /\ request.pc = "idle"
  /\ NextOrderId(ledger) \in OrderIds
  /\ request' = BeginRequest("create", NextOrderId(ledger), customerId, total, status,
                             NoRow, orders, customers)
  /\ UNCHANGED <<otherVars, env, calls, compilerVars, customers, orders, ledger>>

\* PATCH /orders/:id with a valid status, the order found
PatchOrder(id, status) ==
  /\ request.pc = "idle"
  /\ orders[id] # NoRow
  /\ request' = BeginRequest("patch", id, orders[id].customerId, orders[id].total,
                             status, orders[id], orders, customers)
  /\ UNCHANGED <<otherVars, env, calls, compilerVars, customers, orders, ledger>>

\* DELETE /orders/:id, the order found
DeleteOrder(id) ==
  /\ request.pc = "idle"
  /\ orders[id] # NoRow
  /\ request' = BeginRequest("delete", id, orders[id].customerId, orders[id].total,
                             orders[id].status, orders[id], orders, customers)
  /\ UNCHANGED <<otherVars, env, calls, compilerVars, customers, orders, ledger>>

\* The transaction's write to the order table
TxOrderWrite ==
  /\ request.pc = "order"
  /\ request' = [request EXCEPT !.pc = "customer", !.txOrders = OrderWrite(request)]
  /\ UNCHANGED <<otherVars, env, calls, compilerVars, customers, orders, ledger>>

\* The transaction's write to the customer table
TxCustomerWrite ==
  /\ request.pc = "customer"
  /\ request' = [request EXCEPT !.pc = "commit", !.txCustomers = CustomerWrite(request)]
  /\ UNCHANGED <<otherVars, env, calls, compilerVars, customers, orders, ledger>>

\* The callback of prisma.$transaction returns: both writes take effect
Commit ==
  /\ request.pc = "commit"
  /\ orders' = request.txOrders
  /\ customers' = request.txCustomers
  /\ ledger' = Created(ledger, request)
  /\ request' = IdleRequest
  /\ UNCHANGED <<otherVars, env, calls, compilerVars>>

\* A write or the commit fails: the handler's catch answers 500
Rollback ==
  /\ request.pc \in {"order", "customer", "commit"}
  /\ orders' = OrdersOnError(orders, request.txOrders)
  /\ request' = IdleRequest
  /\ UNCHANGED <<otherVars, env, calls, compilerVars, customers, ledger>>

InitOrders ==
  /\ env = [enableProvider |-> FALSE, providerFirstFlag |-> FALSE,
            geminiKey |-> FALSE, openaiKey |-> FALSE, geminiUrl |-> FALSE]
  /\ calls = [c \in CallIds |-> IdleCall]
  /\ CompilerIdle
  /\ StoreIdle
  /\ OthersIdle

NextOrders ==
  \/ \E c \in CustomerIds, total \in OrderTotals, s \in OrderStatuses : PostOrder(c, total, s)
  \/ \E id \in OrderIds, s \in OrderStatuses : PatchOrder(id, s)
  \/ \E id \in OrderIds : DeleteOrder(id)
  \/ TxOrderWrite
  \/ TxCustomerWrite
  \/ Commit
  \/ Rollback

SpecOrders == InitOrders /\ [][NextOrders]_vars

\* ---------------------------------------------------------------- order requests that overlap

\* The order tables a run of create requests may have left: each order
\* absent, or with any customer and status
OrderTables ==
  [OrderIds -> {NoRow} \cup [customerId : CustomerIds, total : OrderTotals,
                             status : OrderStatuses]]

\* The customer table that goes with an order table
BookedCustomers(os) ==
  [c \in CustomerIds |->
     [totalSpending |->
        PriorCustomers[c].totalSpending
          + SumOver([o \in OrderIds |->
                       IF os[o].customerId = c /\ os[o].status = "COMPLETED"
                       THEN os[o].total ELSE 0], OrderIds),
      visitCount |->
        PriorCustomers[c].visitCount
          + Cardinality({o \in OrderIds : os[o].customerId = c})]]

\* A slot whose request has been answered: each slot serves one request
Answered == [IdleRequest EXCEPT !.pc = "answered"]

\* PATCH /orders/:id with a valid status, or DELETE /orders/:id, up to its
\* transaction: findUnique has found the order
ReadOrder(s, kind, id, status) ==
  /\ inflight[s].pc = "idle"
  /\ orders[id] # NoRow
  /\ inflight' =
       [inflight EXCEPT ![s] =
          BeginRequest(kind, id, orders[id].customerId, orders[id].total,
                       IF kind = "patch" THEN status ELSE orders[id].status,
                       orders[id], <<>>, <<>>)]
  /\ UNCHANGED <<env, calls, compilerVars, storeVars, campaignVars, http>>

\* The request's transaction runs on the tables as they are now and commits,
\* adjusting totalSpending by the status findUnique has read.  Where the
\* order is gone, tx.order.update or tx.order.delete throws: nothing is
\* written and the request answers 500.
RunTransaction(s) ==
  /\ inflight[s].pc = "order"
  /\ orders' =
       IF orders[inflight[s].id] = NoRow THEN orders
       ELSE OrderWrite([inflight[s] EXCEPT !.txOrders = orders])
  /\ customers' =
       IF orders[inflight[s].id] = NoRow THEN customers
       ELSE CustomerWrite([inflight[s] EXCEPT !.txCustomers = customers])
  /\ inflight' = [inflight EXCEPT ![s] = Answered]
  /\ UNCHANGED <<env, calls, compilerVars, request, ledger, campaignVars, http>>

\* The transaction fails and is rolled back
FailTransaction(s) ==
  /\ inflight[s].pc = "order"
  /\ inflight' = [inflight EXCEPT ![s] = Answered]
  /\ UNCHANGED <<env, calls, compilerVars, storeVars, campaignVars, http>>

InitOverlap ==
  /\ env = [enableProvider |-> FALSE, providerFirstFlag |-> FALSE,
            geminiKey |-> FALSE, openaiKey |-> FALSE, geminiUrl |-> FALSE]
  /\ calls = [c \in CallIds |-> IdleCall]
  /\ CompilerIdle
  /\ orders \in OrderTables
  /\ customers = BookedCustomers(orders)
  /\ request = IdleRequest
  /\ ledger = [prior |-> PriorCustomers,
               created |-> [c \in CustomerIds |->
                              Cardinality({o \in OrderIds : orders[o].customerId = c})]]
  /\ OthersIdle

NextOverlap ==
  \/ \E s \in OverlapSlots, id \in OrderIds, status \in OrderStatuses :
       ReadOrder(s, "patch", id, status)
  \/ \E s \in OverlapSlots, id \in OrderIds : ReadOrder(s, "delete", id, "none")
  \/ \E s \in OverlapSlots : RunTransaction(s)
  \/ \E s \in OverlapSlots : FailTransaction(s)

SpecOverlap == InitOverlap /\ [][NextOverlap]_vars

\* ---------------------------------------------------------------- campaign requests

\* POST /campaigns, past its validation
CreateCampaign(rules) ==
  /\ NextCampaignId(campaigns) \in CampaignIds
  /\ campaigns' =
       [campaigns EXCEPT ![NextCampaignId(campaigns)] =
          Draft(rules, Cardinality(GetAudienceFromRules(rules, customers, now)))]
  /\ UNCHANGED <<env, calls, compilerVars, storeVars, inflight, http, logs, launches, senders>>

\* PUT /campaigns/:id: updateMany on the campaign while it is DRAFT; any other
\* status answers 404 and writes nothing
UpdateCampaign(id, rules) ==
  /\ campaigns[id].status = "DRAFT"
  /\ campaigns' =
       [campaigns EXCEPT ![id] =
          Draft(rules, Cardinality(GetAudienceFromRules(rules, customers, now)))]
  /\ UNCHANGED <<env, calls, compilerVars, storeVars, inflight, http, logs, launches, senders>>

\* POST /campaigns/:id/pause: updateMany on the campaign while it is ACTIVE;
\* any other status answers 404 and writes nothing
PauseCampaign(id) ==
  /\ campaigns[id].status = "ACTIVE"
  /\ campaigns' = [campaigns EXCEPT ![id].status = "PAUSED"]
  /\ UNCHANGED <<env, calls, compilerVars, storeVars, inflight, http, logs, launches, senders>>

\* POST /campaigns/:id/launch with a message, up to its transaction: findFirst
\* for the campaign in DRAFT, then the audience of the rules it read.  The
\* customer table does not change here, so the two reads are one step.  A
\* campaign that is not DRAFT answers 404, an empty audience 400, and nothing
\* is written.
LaunchCampaign(s, id) ==
  /\ launches[s].pc = "idle"
  /\ senders[s].pc \in {"idle", "returned"}
  /\ campaigns[id].status = "DRAFT"
  /\ GetAudienceFromRules(campaigns[id].rules, customers, now) # {}
  /\ launches' =
       [launches EXCEPT ![s] =
          [IdleLaunch EXCEPT
             !.pc = "tx", !.kind = "launch", !.id = id,
             !.audience = GetAudienceFromRules(campaigns[id].rules, customers, now)]]
  /\ UNCHANGED <<env, calls, compilerVars, storeVars, inflight, http, campaigns, logs, senders>>

\* POST /segments with autoLaunch, up to its transaction: the campaign is
\* created in DRAFT with the segment's size, and the audience is found with
\* the segment's where clause
SegmentAutoLaunch(s, rules) ==
  /\ launches[s].pc = "idle"
  /\ senders[s].pc \in {"idle", "returned"}
  /\ NextCampaignId(campaigns) \in CampaignIds
  /\ campaigns' =
       [campaigns EXCEPT ![NextCampaignId(campaigns)] =
          Draft(rules, Cardinality(SegmentAudience(rules, customers)))]
  /\ launches' =
       [launches EXCEPT ![s] =
          IF SegmentAudience(rules, customers) = {}
          THEN IdleLaunch
          ELSE [IdleLaunch EXCEPT
                  !.pc = "tx", !.kind = "segment", !.id = NextCampaignId(campaigns),
                  !.audience = SegmentAudience(rules, customers)]]
  /\ UNCHANGED <<env, calls, compilerVars, storeVars, inflight, http, logs, senders>>

\* The first write inside the transaction
LaunchTxWrite(s) ==
  /\ launches[s].pc = "tx"
  /\ launches[s].written = 0
  /\ Len(logs) + Cardinality(launches[s].audience) <= MaxLogs
  /\ launches' = [launches EXCEPT ![s].written = @ + 1]
  /\ UNCHANGED <<env, calls, compilerVars, storeVars, inflight, http, campaigns, logs, senders>>

\* The second write, and the callback of prisma.$transaction returns: both
\* writes take effect, the handler calls sendCampaignMessages without awaiting
\* it, and answers
LaunchCommit(s) ==
  /\ launches[s].pc = "tx"
  /\ launches[s].written = 1
  /\ Len(logs) + Cardinality(launches[s].audience) <= MaxLogs
  /\ campaigns' =
       LaunchWrites(Tables(campaigns, logs), [launches[s] EXCEPT !.written = 2]).campaigns
  /\ logs' = LaunchWrites(Tables(campaigns, logs), [launches[s] EXCEPT !.written = 2]).logs
  /\ launches' = [launches EXCEPT ![s] = IdleLaunch]
  /\ senders' = [senders EXCEPT ![s] =
                   [IdleSender EXCEPT !.pc = "find", !.campaignId = launches[s].id]]
  /\ UNCHANGED <<env, calls, compilerVars, storeVars, inflight, http>>

\* A write or the commit fails: the handler's catch answers 500
LaunchRollback(s) ==
  /\ launches[s].pc = "tx"
  /\ campaigns' = LaunchOnError(Tables(campaigns, logs),
                                LaunchWrites(Tables(campaigns, logs), launches[s])).campaigns
  /\ logs' = LaunchOnError(Tables(campaigns, logs),
                           LaunchWrites(Tables(campaigns, logs), launches[s])).logs
  /\ launches' = [launches EXCEPT ![s] = IdleLaunch]
  /\ UNCHANGED <<env, calls, compilerVars, storeVars, inflight, http, senders>>

\* sendCampaignMessages: findMany for the PENDING logs of the campaign; with
\* none it returns
SenderFind(s, batchSize) ==
  /\ senders[s].pc = "find"
  /\ senders' =
       [senders EXCEPT ![s] =
          IF PendingLogs(logs, senders[s].campaignId) = <<>>
          THEN [@ EXCEPT !.pc = "returned"]
          ELSE [@ EXCEPT !.pc = "post", !.idx = 1, !.batchSize = batchSize,
                         !.pendingLogs = PendingLogs(logs, senders[s].campaignId)]]
  /\ UNCHANGED <<env, calls, compilerVars, storeVars, inflight, http, campaigns, logs, launches>>

\* The vendor's send-message call for the log at idx settles.  Accepted, the
\* vendor has set its timer and the id joins acceptedIds; otherwise (an answer
\* without success, or a failed call) the log is marked FAILED.
SenderPost(s, accepted) ==
  /\ senders[s].pc = "post"
  /\ logs' =
       [logs EXCEPT ![senders[s].pendingLogs[senders[s].idx]] =
          IF accepted
          THEN [@ EXCEPT !.timers = @ + 1, !.accepted = TRUE]
          ELSE [@ EXCEPT !.status = "FAILED"]]
  /\ senders' =
       [senders EXCEPT ![s] =
          FlushOrAdvance(
            IF accepted
            THEN [@ EXCEPT !.acceptedIds = Append(@, senders[s].pendingLogs[senders[s].idx])]
            ELSE @)]
  /\ UNCHANGED <<env, calls, compilerVars, storeVars, inflight, http, campaigns, launches>>

\* The batch update to SENT
SenderFlush(s) ==
  /\ senders[s].pc = "flush"
  /\ logs' = Flush(logs, senders[s].acceptedIds)
  /\ senders' = [senders EXCEPT ![s] = Advance([@ EXCEPT !.acceptedIds = <<>>])]
  /\ UNCHANGED <<env, calls, compilerVars, storeVars, inflight, http, campaigns, launches>>

\* The vendor's timer fires and POST /vendor/delivery-receipt writes the status
DeliveryReceipt(id, status) ==
  /\ id \in 1..Len(logs)
  /\ logs[id].timers > 0
  /\ logs' = [logs EXCEPT ![id] =
                [@ EXCEPT !.timers = @ - 1, !.status = status, !.receipt = TRUE]]
  /\ UNCHANGED <<env, calls, compilerVars, storeVars, inflight, http, campaigns, launches, senders>>

InitCampaign ==
  /\ env = [enableProvider |-> FALSE, providerFirstFlag |-> FALSE,
            geminiKey |-> FALSE, openaiKey |-> FALSE, geminiUrl |-> FALSE]
  /\ calls = [c \in CallIds |-> IdleCall]
  /\ CompilerIdle
  /\ StoreIdle
  /\ OthersIdle

NextCampaign ==
  \/ \E rules \in CampaignRules : CreateCampaign(rules)
  \/ \E id \in CampaignIds, rules \in CampaignRules : UpdateCampaign(id, rules)
  \/ \E id \in CampaignIds : PauseCampaign(id)
  \/ \E s \in LaunchSlots, id \in CampaignIds : LaunchCampaign(s, id)
  \/ \E s \in LaunchSlots, rules \in CampaignRules : SegmentAutoLaunch(s, rules)
  \/ \E s \in LaunchSlots : LaunchTxWrite(s)
  \/ \E s \in LaunchSlots : LaunchCommit(s)
  \/ \E s \in LaunchSlots : LaunchRollback(s)
  \/ \E s \in LaunchSlots, b \in BatchSizes : SenderFind(s, b)
  \/ \E s \in LaunchSlots, accepted \in BOOLEAN : SenderPost(s, accepted)
  \/ \E s \in LaunchSlots : SenderFlush(s)
  \/ \E id \in 1..MaxLogs, status \in {"DELIVERED", "FAILED"} : DeliveryReceipt(id, status)

SpecCampaign == InitCampaign /\ [][NextCampaign]_vars

\* ---------------------------------------------------------------- one call of sendCampaignMessages

\* The PENDING logs one call may find
MaxPending == 3

\* A launched campaign with n PENDING logs, and sendCampaignMessages just called
InitSender ==
  /\ env = [enableProvider |-> FALSE, providerFirstFlag |-> FALSE,
            geminiKey |-> FALSE, openaiKey |-> FALSE, geminiUrl |-> FALSE]
  /\ calls = [c \in CallIds |-> IdleCall]
  /\ CompilerIdle
  /\ StoreIdle
  /\ inflight = [s \in OverlapSlots |-> IdleRequest]
  /\ http = IdleHttp
  /\ \E n \in 0..MaxPending :
       /\ campaigns = [c \in CampaignIds |->
                         [status |-> "ACTIVE", audienceSize |-> n, rules |-> EveryoneRules]]
       /\ logs = [i \in 1..n |-> Log(1, 1 + ((i - 1) % 2))]
  /\ launches = [s \in LaunchSlots |-> IdleLaunch]
  /\ senders = [s \in LaunchSlots |->
                  IF s = 1 THEN [IdleSender EXCEPT !.pc = "find", !.campaignId = 1]
                  ELSE IdleSender]

NextSender ==
  \/ \E b \in BatchSizes : SenderFind(1, b)
  \/ \E accepted \in BOOLEAN : SenderPost(1, accepted)
  \/ SenderFlush(1)
  \/ \E id \in 1..MaxPending, status \in {"DELIVERED", "FAILED"} :
       DeliveryReceipt(id, status)

\* Every awaited read, vendor call and write of the sender settles; the
\* vendor's receipts come when they come
SpecSender ==
  /\ InitSender
  /\ [][NextSender]_vars
  /\ WF_vars(\E b \in BatchSizes : SenderFind(1, b))
  /\ WF_vars(\E accepted \in BOOLEAN : SenderPost(1, accepted))
  /\ WF_vars(SenderFlush(1))

\* ---------------------------------------------------------------- an HTTP request to the app

NodeEnvs == {"production", "development", "unset"}

\* The paths of the model, as the prefix a router is mounted under and the
\* route within the router
HttpPaths ==
  {[mount |-> "/api/ai", route |-> "/nl-to-rules"],
   [mount |-> "/api/ai", route |-> "/nl-to-rules-public"],
   [mount |-> "/api/ai", route |-> "/unknown"],
   [mount |-> "/api/vendor", route |-> "/nl-to-rules-public"]}

\* No token, a token of a user, one with a bad signature, one of a user deleted since
Tokens == {"none", "valid", "invalid", "stale"}

\* app.use(prefix, authenticateUser, router): the prefixes mounted behind authenticateUser
MountedBehindAuth ==
  {"/api/customers", "/api/orders", "/api/campaigns", "/api/analytics", "/api/ai",
   "/api/segments"}

\* authenticateUser(req, res, next): the status it answers, or 0 where it calls next()
AuthenticateUser(h) ==
  IF h.token = "none" THEN 401
  ELSE IF ~h.jwtSecret THEN 500
  ELSE IF h.token \in {"invalid", "stale"} THEN 401
  ELSE 0

\* The routes of the AI router: nl-to-rules-public is registered at load time
\* unless NODE_ENV is production
AiRoutes(nodeEnv) ==
  {"/nl-to-rules"} \cup (IF nodeEnv # "production" THEN {"/nl-to-rules-public"} ELSE {})

\* The request has gone through a middleware or handler: answered with a
\* status, or handed on
After(h, name, status, pc) ==
  IF status # 0
  THEN [h EXCEPT !.pc = "answered", !.status = status, !.passed = Append(@, name)]
  ELSE [h EXCEPT !.pc = pc, !.passed = Append(@, name)]

\* A POST request arrives
Arrive(path, token, prompt) ==
  /\ http.pc = "idle"
  /\ http' = [http EXCEPT !.pc = "mount", !.mount = path.mount, !.route = path.route,
                          !.token = token, !.prompt = prompt, !.status = 0,
                          !.passed = <<>>]
  /\ UNCHANGED <<env, calls, compilerVars, storeVars, inflight, campaignVars>>

\* The middleware in front of the router the path is mounted under
MountMiddleware ==
  /\ http.pc = "mount"
  /\ http' =
       IF http.mount \in MountedBehindAuth
       THEN After(http, "authenticateUser", AuthenticateUser(http), "router")
       ELSE [http EXCEPT !.pc = "router"]
  /\ UNCHANGED <<env, calls, compilerVars, storeVars, inflight, campaignVars>>

\* The router looks for the route; none found, the app's 404 handler answers
RouteMatch ==
  /\ http.pc = "router"
  /\ http' =
       IF http.mount = "/api/ai" /\ http.route \in AiRoutes(http.nodeEnv)
       THEN (IF http.route = "/nl-to-rules"
             THEN After(http, "authenticateUser", AuthenticateUser(http), "handler")
             ELSE [http EXCEPT !.pc = "handler"])
       ELSE [http EXCEPT !.pc = "answered", !.status = 404]
  /\ UNCHANGED <<env, calls, compilerVars, storeVars, inflight, campaignVars>>

\* The handler: 400 on an empty prompt, and otherwise the rules of
\* convertNaturalLanguageToRules
Handler ==
  /\ http.pc = "handler"
  /\ http' = After(http, "convertNaturalLanguageToRules",
                   IF http.prompt = "empty" THEN 400 ELSE 200, "answered")
  /\ UNCHANGED <<env, calls, compilerVars, storeVars, inflight, campaignVars>>

\* The connection is free for the next request
Close ==
  /\ http.pc = "answered"
  /\ http' = [IdleHttp EXCEPT !.nodeEnv = http.nodeEnv, !.jwtSecret = http.jwtSecret]
  /\ UNCHANGED <<env, calls, compilerVars, storeVars, inflight, campaignVars>>

InitRoutes ==
  /\ env = [enableProvider |-> FALSE, providerFirstFlag |-> FALSE,
            geminiKey |-> FALSE, openaiKey |-> FALSE, geminiUrl |-> FALSE]
  /\ calls = [c \in CallIds |-> IdleCall]
  /\ CompilerIdle
  /\ StoreIdle
  /\ inflight = [s \in OverlapSlots |-> IdleRequest]
  /\ CampaignIdle
  /\ \E e \in NodeEnvs, secret \in BOOLEAN :
       http = [IdleHttp EXCEPT !.nodeEnv = e, !.jwtSecret = secret]

NextRoutes ==
  \/ \E path \in HttpPaths, token \in Tokens, prompt \in {"empty", "given"} :
       Arrive(path, token, prompt)
  \/ MountMiddleware
  \/ RouteMatch
  \/ Handler
  \/ Close

SpecRoutes == InitRoutes /\ [][NextRoutes]_vars

\* ---------------------------------------------------------------- properties

Done(c) == calls[c].pc = "done"

\* The document call c returned
Returned(c) == calls[c].result[1]

\* The lowercased prompt of call c
Lowered(c) == ToLowerCase(calls[c].prompt)

\* text holds w somewhere
Holds(text, w) ==
  \E i \in 1..(Len(text) - Len(w) + 1) : \A j \in 1..Len(w) : text[i + j - 1] = w[j]

\* text holds w as a word of its own: no letter, digit or underscore on either side
HoldsWord(text, w) ==
  \E i \in 1..(Len(text) - Len(w) + 1) :
    /\ \A j \in 1..Len(w) : text[i + j - 1] = w[j]
    /\ (i = 1 \/ ~IsWordChar(text[i - 1]))
    /\ (i + Len(w) > Len(text) \/ ~IsWordChar(text[i + Len(w)]))

\* The characters of text at the offsets from .. to - 1, cut to the text
Slice(text, from, to) ==
  LET lo == Max2(0, from)
      hi == Min2(Len(text), to)
  IN [k \in 1..(hi - lo) |-> text[lo + k]]

\* The value of the number token that starts at offset p
TokenValue(text, p) == NumberOf(Substring(text, p, NumberEnd(text, p)))

Cond(f, op, v) == [field |-> f, operator |-> op, value |-> v]

\* What Stage A alone makes of prompt p
StageADocument(p) ==
  LET lp == ToLowerCase(p)
      cs == SortByIndex(PushedCandidates(lp))
  IN LocalDocument(LocalRules(lp, cs))

\* No provider is called: the enable flag is off, or no key is configured
ProvidersDisabled == ~(env.enableProvider /\ ApiKey(env))

\* C1: convertNaturalLanguageToRules never throws or rejects.  Whatever the
\* prompt, the provider flags and keys, and whatever each provider attempt does
\* (rejects, returns nothing, text without JSON, JSON that fails the schema, a
\* valid document without conditions), the error never leaves the function: a
\* call stays within its attempt budget, and what it returns is a rule document.
C1_InferNeverThrows ==
  \A c \in CallIds :
    /\ calls[c].pc \in {"idle", "received", "awaitProvider", "backoff", "done"}
    /\ calls[c].attempt <= calls[c].attempts
    /\ calls[c].pc = "awaitProvider" =>
         calls[c].attempt >= 1 /\ calls[c].mode \in {"first", "fallback"}
    /\ Done(c) =>
         /\ Len(calls[c].result) = 1
         /\ Returned(c).logic \in {"AND", "OR"}
         /\ DOMAIN Returned(c).conditions = 1..Len(Returned(c).conditions)
         /\ Returned(c).provider \in {"null", "GEMINI", "OPENAI", "NONE"}

\* A call returned after its fallback attempts were all used up on failures
C1_Witness ==
  \E c \in CallIds :
    /\ Done(c)
    /\ calls[c].mode = "fallback"
    /\ calls[c].attempt = FallbackAttempts
    /\ calls[c].lastErr = "error"
    /\ Returned(c).provider = "null"

\* C2: provider degradation.  When the provider was tried and no attempt
\* yielded JSON, the call returns exactly the document Stage A makes of the
\* prompt, with provider null.
C2_ProviderDegradation ==
  \A c \in CallIds :
    Done(c) /\ calls[c].mode # "none" /\ ~calls[c].extracted =>
      /\ Returned(c) = StageADocument(calls[c].prompt)
      /\ Returned(c).provider = "null"

\* Provider-first used up its three attempts on a prompt with two conditions
C2_Witness ==
  \E c \in CallIds :
    /\ Done(c)
    /\ calls[c].mode = "first"
    /\ calls[c].attempt = FirstAttempts
    /\ ~calls[c].extracted
    /\ Len(Returned(c).conditions) = 2
    /\ Returned(c).connectors = <<"OR">>

\* C3: connector length invariant.  In every document a call returns, local or
\* from a provider, connectors, if present, has one element fewer than conditions.
C3_ConnectorLength ==
  \A c \in CallIds :
    Done(c) /\ Returned(c).hasConnectors =>
      Len(Returned(c).connectors) = Len(Returned(c).conditions) - 1

\* C4, as claimed: the top-level logic of the local document is OR exactly when
\* the prompt holds the word "or" and not the word "and", however many
\* conditions were extracted.
C4_LogicFromPromptWords ==
  \A c \in CallIds :
    Done(c) =>
      Returned(c).logic =
        IF HoldsWord(Lowered(c), K_or) /\ ~HoldsWord(Lowered(c), K_and)
        THEN "OR" ELSE "AND"

\* C4, amended: the top-level logic is OR exactly when fewer than two conditions
\* were extracted (no connector) and the prompt holds the word "or" and not the
\* word "and"; it is AND otherwise.
C4_LogicWhenNoConnectors ==
  \A c \in CallIds :
    Done(c) =>
      Returned(c).logic =
        IF /\ Len(Returned(c).conditions) < 2
           /\ HoldsWord(Lowered(c), K_or)
           /\ ~HoldsWord(Lowered(c), K_and)
        THEN "OR" ELSE "AND"

\* One condition and the word "or": logic OR
C4_Witness ==
  \E c \in CallIds :
    /\ Done(c)
    /\ Len(Returned(c).conditions) = 1
    /\ HoldsWord(Lowered(c), K_or)
    /\ Returned(c).logic = "OR"

\* C5: between-expansion.  "<lead>spent between A and B" yields exactly the two
\* conditions totalSpending >= A, totalSpending <= B, and "<lead>visited between
\* A and B times" the two visitCount conditions; no third one.
C5_BetweenYieldsTwo ==
  \A c \in CallIds :
    Done(c) =>
      /\ \A l \in Leads, a \in Amounts, b \in Amounts :
           calls[c].prompt = l \o T_spent_between \o a \o T_and \o b =>
             Returned(c).conditions =
               <<Cond(F_totalSpending, ">=", NumberOf(a)),
                 Cond(F_totalSpending, "<=", NumberOf(b))>>
      /\ \A l \in Leads, a \in Counts :
           calls[c].prompt
               = l \o T_visited_between \o a \o T_and \o VisitTokens[2] \o T_times =>
             Returned(c).conditions =
               <<Cond(F_visitCount, ">=", NumberOf(a)),
                 Cond(F_visitCount, "<=", NumberOf(VisitTokens[2]))>>

SpentOverAndVisited(j) ==
  T_spent \o T_over \o SpendTokens[1] \o j \o T_visited \o T_more_than
    \o VisitTokens[1] \o T_times

\* C6: connector inference.  The conditions stand in ascending order of their
\* anchor offsets; the connector of two neighbours is OR when the prompt text
\* between their anchors holds the word "or" and AND otherwise; with fewer than
\* two conditions there is no connectors field.  "spent over 500 and visited
\* more than 3 times" gives totalSpending, visitCount and ['AND']; with "or",
\* ['OR'].
C6_ConnectorInference ==
  \A c \in CallIds :
    Done(c) =>
      LET cs == calls[c].candidates
          doc == Returned(c)
          lp == Lowered(c)
      IN /\ \A i \in 1..Len(cs), j \in 1..Len(cs) :
              i < j => cs[i].index <= cs[j].index
         /\ doc.conditions
              = [i \in 1..Len(cs) |-> Cond(cs[i].field, cs[i].operator, cs[i].value)]
         /\ Len(cs) < 2 => ~doc.hasConnectors /\ doc.connectors = <<>>
         /\ Len(cs) >= 2 =>
              /\ doc.hasConnectors
              /\ Len(doc.connectors) = Len(cs) - 1
              /\ \A i \in 1..(Len(cs) - 1) :
                   doc.connectors[i] =
                     IF HoldsWord(Slice(lp, cs[i].index, cs[i + 1].index), K_or)
                     THEN "OR" ELSE "AND"
         /\ \A j \in {T_and, T_or} :
              calls[c].prompt = SpentOverAndVisited(j) =>
                /\ doc.conditions =
                     <<Cond(F_totalSpending, ">", NumberOf(SpendTokens[1])),
                       Cond(F_visitCount, ">", NumberOf(VisitTokens[1]))>>
                /\ doc.connectors = <<IF j = T_or THEN "OR" ELSE "AND">>

\* "spent over 500 or visited more than 3 times" returned with ['OR']
C6_Witness ==
  \E c \in CallIds :
    /\ Done(c)
    /\ calls[c].prompt = SpentOverAndVisited(T_or)
    /\ Returned(c).connectors = <<"OR">>

\* The operator a window of text stands for, spending rule
WindowOperator(window) ==
  IF Holds(window, K_more_than) \/ Holds(window, K_over) THEN ">"
  ELSE IF Holds(window, K_less_than) \/ Holds(window, K_under) THEN "<"
  ELSE ">="

\* The spending keywords that stand at offset i
SpendWordsAt(text, i) ==
  {w \in {K_spent, K_spending, K_spend} :
     i + Len(w) <= Len(text) /\ \A j \in 1..Len(w) : text[i + j] = w[j]}

\* A spending keyword stands at offset i and the first digit after it at offset
\* p, at most 20 characters past the keyword
SpendNumberAt(text, i, p) ==
  \E w \in SpendWordsAt(text, i) :
    /\ i + Len(w) <= p
    /\ p <= i + Len(w) + ProximityLimit
    /\ p < Len(text)
    /\ IsDigit(text[p + 1])
    /\ \A x \in (i + Len(w))..(p - 1) : ~IsDigit(text[x + 1])

\* The offsets of the spending keywords that a number follows
SpendStarts(text) ==
  {i \in 0..(Len(text) - 1) :
     /\ SpendWordsAt(text, i) # {}
     /\ \E p \in i..(Len(text) - 1) : SpendNumberAt(text, i, p)}

VisitBlockCandidates(c) ==
  {n \in 1..Len(calls[c].candidates) :
     calls[c].candidates[n].via \in {"visits", "visitsNearest"}}

\* C8, as claimed: on every path of the visits block, direct match and
\* nearest-number fallback alike, '<' is chosen only when the window holds
\* "less than".
C8_VisitUnderNeverLess ==
  \A c \in CallIds :
    Done(c) =>
      \A n \in VisitBlockCandidates(c) :
        calls[c].candidates[n].operator = "<" =>
          Holds(calls[c].candidates[n].near, K_less_than)

\* C8, amended: on the direct pattern match of the visits block the window is
\* the 20 characters to either side of the match, and '<' is chosen exactly when
\* it holds "less than" and neither "more than" nor "over": "under" alone gives
\* '>='.  On the nearest-number fallback '<' is chosen exactly when the window
\* holds "less than" or "under" and neither "more than" nor "over".
C8_VisitDirectAsymmetry ==
  \A c \in CallIds :
    Done(c) =>
      \A n \in VisitBlockCandidates(c) :
        LET cand == calls[c].candidates[n]
            greater == Holds(cand.near, K_more_than) \/ Holds(cand.near, K_over)
        IN /\ cand.field = F_visitCount
           /\ cand.via = "visits" =>
                /\ cand.near = Slice(Lowered(c), cand.index - WindowRadius,
                                     cand.index + WindowRadius)
                /\ cand.operator = "<" <=> (Holds(cand.near, K_less_than) /\ ~greater)
           /\ cand.via = "visitsNearest" =>
                cand.operator = "<" <=>
                  ((Holds(cand.near, K_less_than) \/ Holds(cand.near, K_under))
                     /\ ~greater)

\* A direct visit match with "under" in its window and no '<'
C8_Witness ==
  \E c \in CallIds :
    /\ Done(c)
    /\ \E n \in VisitBlockCandidates(c) :
         /\ calls[c].candidates[n].via = "visits"
         /\ Holds(calls[c].candidates[n].near, K_under)
         /\ ~Holds(calls[c].candidates[n].near, K_less_than)
         /\ calls[c].candidates[n].operator = ">="

\* The offset the recency number is sought from: the first "month", else the
\* first "day", else the first "last"
RecencyAnchor(text) ==
  IF Holds(text, K_month) THEN IndexOf(text, K_month)
  ELSE IF Holds(text, K_day) THEN IndexOf(text, K_day)
  ELSE IndexOf(text, K_last)

\* The recency number N: the number whose offset is nearest to the anchor, the
\* earlier one of two equally near
RecencyNumber(text) ==
  LET nms == NumberMatches(text)
      a == RecencyAnchor(text)
      n == CHOOSE n \in 1..Len(nms) :
             \A k \in 1..Len(nms) :
               \/ Abs(nms[n].index - a) < Abs(nms[k].index - a)
               \/ (Abs(nms[n].index - a) = Abs(nms[k].index - a) /\ n <= k)
  IN nms[n].value

\* v to the nearest whole number, halves up
Rounded(v) ==
  Scale * (CHOOSE r \in 0..(v \div Scale + 1) :
             2 * r * Scale - Scale <= 2 * v /\ 2 * v < 2 * r * Scale + Scale)

\* The lastVisit conditions among the candidates of call c
RecencyConditions(c) ==
  {n \in 1..Len(calls[c].candidates) : calls[c].candidates[n].field = F_lastVisit}

\* C9, as claimed: every lastVisit condition has operator 'before' and value
\* 30 x N if the prompt holds "month", N otherwise.
C9_DaysTimesThirty ==
  \A c \in CallIds :
    Done(c) =>
      \A n \in RecencyConditions(c) :
        /\ calls[c].candidates[n].operator = "before"
        /\ calls[c].candidates[n].value =
             IF Holds(Lowered(c), K_month)
             THEN DaysPerMonth * RecencyNumber(Lowered(c))
             ELSE RecencyNumber(Lowered(c))

\* C9, amended: every lastVisit condition has operator 'before' and value
\* 30 x round(N) if the prompt holds "month", round(N) otherwise, N rounded to
\* the nearest whole number, halves up.  "in the last 2 months" gives 60,
\* "in the last 10 days" gives 10.
C9_DaysNormalization ==
  \A c \in CallIds :
    Done(c) =>
      /\ \A n \in RecencyConditions(c) :
           /\ calls[c].candidates[n].operator = "before"
           /\ calls[c].candidates[n].value =
                IF Holds(Lowered(c), K_month)
                THEN DaysPerMonth * Rounded(RecencyNumber(Lowered(c)))
                ELSE Rounded(RecencyNumber(Lowered(c)))
           /\ \E k \in 1..Len(Returned(c).conditions) :
                Returned(c).conditions[k]
                  = Cond(F_lastVisit, "before", calls[c].candidates[n].value)
      /\ calls[c].prompt = T_in_the_last \o RecencyTokens[1] \o T_months =>
           Returned(c).conditions = <<Cond(F_lastVisit, "before", 60 * Scale)>>
      /\ calls[c].prompt = T_in_the_last \o RecencyTokens[2] \o T_days =>
           Returned(c).conditions = <<Cond(F_lastVisit, "before", 10 * Scale)>>

\* A recency number with a fraction, in months: 2.5 months gives 90 days
C9_Witness ==
  \E c \in CallIds :
    /\ Done(c)
    /\ Holds(Lowered(c), K_month)
    /\ \E n \in RecencyConditions(c) :
         /\ RecencyNumber(Lowered(c)) % Scale # 0
         /\ calls[c].candidates[n].value
              = DaysPerMonth * Rounded(RecencyNumber(Lowered(c)))

Compiled == whereClause # <<>>

\* It returned a where object
CompiledWhere == whereClause[1].where

\* C11: buildWhereClause never throws; whatever malformed entries the conditions
\* of a rule document hold (null, a non-object, an object lacking field, operator
\* or value, an unknown field, an unsupported operator), it returns a where object.
C11_CompilerNeverThrows == Compiled => ~whereClause[1].threw

\* The operators the compiler supports for a field
SupportedOperators(f) ==
  IF f = F_totalSpending THEN {">", "<", ">=", "<="}
  ELSE IF f = F_visitCount THEN {">", "<"}
  ELSE IF f = F_lastVisit THEN {"before", "after"}
  ELSE IF f = F_email THEN {"contains"}
  ELSE {}

\* A condition with a field and an operator, the operator not supported for the
\* field, or the field none of the four
Unusable(e) ==
  /\ Get(e, "field").t = "string"
  /\ Get(e, "operator").t = "string"
  /\ Get(e, "operator").s \notin SupportedOperators(Get(e, "field").s)

RemoveAt(s, i) == SubSeq(s, 1, i - 1) \o SubSeq(s, i + 1, Len(s))

\* C12: an unusable condition contributes no constraint; for a document with
\* logic AND or OR, the where object compiled from it matches exactly the
\* customers matched by the where object compiled from the document with that
\* condition removed.
C12_UnusableContributesNothing ==
  (Compiled /\ ~whereClause[1].threw /\ HasConditions(ruleDoc)
     /\ ruleDoc.logic \in {"AND", "OR"})
    => \A i \in 1..Len(ruleDoc.conditions) :
         Unusable(ruleDoc.conditions[i])
           => Audience(CompiledWhere)
                = Audience(BuildWhereClause(
                    [ruleDoc EXCEPT !.conditions = RemoveAt(ruleDoc.conditions, i)],
                    now).where)

\* C13: empty inference is maximally permissive; with no provider in use, a
\* returned document without conditions has provider null and compiles to a
\* where object that matches every customer.
C13_EmptyInferenceMatchesAll ==
  \A c \in CallIds :
    (Done(c) /\ ProvidersDisabled /\ Len(Returned(c).conditions) = 0)
      => /\ Returned(c).provider = "null"
         /\ \A d \in Nows :
              Audience(BuildWhereClause(RuleDocOf(Returned(c)), d).where) = Rows

\* C14: the compiler ignores connectors; whatever connectors a document carries,
\* or none, buildWhereClause returns for it what it returns for the document at
\* hand, which has the same logic and conditions.
C14_ConnectorsIgnored ==
  Compiled
    => \A k \in ConnectorChoices :
         BuildWhereClause([ruleDoc EXCEPT !.hasConnectors = k.hasConnectors,
                                          !.connectors = k.connectors], now)
           = whereClause[1]

\* Two conditions were compiled for a document with logic AND whose connectors
\* say OR
C14_Witness ==
  /\ Compiled
  /\ ~whereClause[1].threw
  /\ HasConditions(ruleDoc)
  /\ Len(ruleDoc.conditions) = 2
  /\ ruleDoc.logic = "AND"
  /\ ruleDoc.connectors = <<"OR">>
  /\ CompiledWhere.combinator = "AND"
  /\ \A i \in 1..2 : CompiledWhere.clauses[i] # NoConstraint

\* The Prisma operator the claim pairs with a rule operator
PrismaOperator(op) ==
  IF op = ">" THEN "gt"
  ELSE IF op = "<" THEN "lt"
  ELSE IF op = ">=" THEN "gte"
  ELSE IF op = "<=" THEN "lte"
  ELSE IF op = "before" THEN "lt"
  ELSE IF op = "after" THEN "gt"
  ELSE "contains"

\* date lies value days before d, to the time of day
DaysBefore(date, value, d) ==
  IF Number(value).t = "number"
  THEN /\ date.t = "Date"
       /\ date.date * Scale = d.date * Scale - Number(value).n
       /\ date.time = d.time
  ELSE date = InvalidDate

\* clause is the constraint the claim gives for a condition with field f,
\* operator op and value v, compiled at d; no constraint when the operator is
\* not one of the field's
TranslatedAsClaimed(clause, f, op, v, d) ==
  IF op \notin SupportedOperators(f) THEN clause = NoConstraint
  ELSE /\ Len(clause) = 1
       /\ clause[1].key = f
       /\ clause[1].op = PrismaOperator(op)
       /\ IF f = F_lastVisit THEN DaysBefore(clause[1].arg, v, d)
          ELSE IF f = F_email THEN clause[1].arg = v
          ELSE clause[1].arg = Number(v)

\* The conditions that have a field and an operator
WellFormed(e) == Get(e, "field").t = "string" /\ Get(e, "operator").t = "string"

\* C15: per-condition translation; totalSpending compiles to gt, lt, gte, lte
\* of Number(value) for >, <, >=, <=, visitCount to gt and lt for > and < only,
\* lastVisit to a cutoff value days before now, earlier than it for before and
\* later for after, email to a substring match for contains; the constraints
\* are joined by OR when logic is OR and by AND for every other logic.
C15_PerConditionTranslation ==
  (Compiled /\ ~whereClause[1].threw /\ HasConditions(ruleDoc))
    => /\ CompiledWhere.combinator = (IF ruleDoc.logic = "OR" THEN "OR" ELSE "AND")
       /\ Len(CompiledWhere.clauses) = Len(ruleDoc.conditions)
       /\ \A i \in 1..Len(ruleDoc.conditions) :
            WellFormed(ruleDoc.conditions[i])
              => TranslatedAsClaimed(CompiledWhere.clauses[i],
                                     Get(ruleDoc.conditions[i], "field").s,
                                     Get(ruleDoc.conditions[i], "operator").s,
                                     Get(ruleDoc.conditions[i], "value"), now)

\* ---------------------------------------------------------------- the provider's claims

\* Stage A of call c has run and the provider flags have been read
PastFlags(c) == calls[c].pc \notin {"idle", "received"}

WithinBudget(c, b) == calls[c].attempts = b /\ calls[c].attempt \in 1..b

\* The retry budgets, and what the heuristic-fallback loop requires
RetryBudget(c) ==
  /\ calls[c].mode = "first" => WithinBudget(c, 3)
  /\ calls[c].mode = "fallback"
       => /\ WithinBudget(c, 2)
          /\ Len(calls[c].rules.conditions) \in {0, 1}
          /\ env.enableProvider
          /\ env.geminiKey \/ env.openaiKey
  /\ (Done(c) /\ Returned(c).provider # "null") => calls[c].yielded = "validJson"

\* C17: retry budget as claimed; at most 3 attempts in provider-first mode and
\* at most 2 in heuristic-fallback mode, which needs a provider enabled and at
\* most one local condition, and a loop does not go on after an attempt that
\* yielded parseable JSON.
C17_StopsAtParseableJson ==
  \A c \in CallIds :
    /\ RetryBudget(c)
    /\ calls[c].pc = "backoff"
         => calls[c].yielded \notin {"falsyJson", "invalidJson", "validJson"}

\* C17, amended: the budgets are as claimed, and a loop does not go on after an
\* attempt that yielded a JSON value other than null, false, 0 or ""; such a
\* falsy value is parseable JSON, but the loop takes it for a failure and goes
\* on to its backoff.
C17_RetryBudget ==
  \A c \in CallIds :
    /\ RetryBudget(c)
    /\ calls[c].pc = "backoff" => calls[c].yielded \in {"error", "falsyJson"}
    /\ calls[c].yielded = "falsyJson" => calls[c].pc = "backoff"

\* After three provider-first attempts, the second attempt of the fallback loop
\* has yielded a falsy JSON value and the loop is in its backoff
C17_Witness ==
  \E c \in CallIds :
    /\ calls[c].pc = "backoff"
    /\ calls[c].yielded = "falsyJson"
    /\ calls[c].ranFirst
    /\ calls[c].mode = "fallback"
    /\ calls[c].attempt = 2

\* C18: schema-invalid JSON as claimed; an attempt whose JSON fails RulesSchema
\* is handled as a failed call is: the loop goes to its backoff, to retry while
\* attempts remain.
C18_InvalidJsonRetried ==
  \A c \in CallIds : calls[c].yielded = "invalidJson" => calls[c].pc = "backoff"

\* C18, amended: an attempt whose JSON fails RulesSchema ends its loop at
\* once, with no retry in that mode; the call returns Stage A's result, or,
\* coming from the provider-first loop with at most one local condition, starts
\* the fallback loop at its first attempt.
C18_InvalidJsonEndsLoop ==
  \A c \in CallIds :
    calls[c].yielded = "invalidJson"
      => \/ Done(c) /\ Returned(c) = LocalDocument(calls[c].rules)
         \/ /\ calls[c].pc = "awaitProvider"
            /\ calls[c].mode = "fallback"
            /\ calls[c].attempt = 1
            /\ calls[c].ranFirst
            /\ Len(calls[c].rules.conditions) \in {0, 1}

\* The first of three provider-first attempts yielded schema-invalid JSON, and
\* the call returned Stage A's result
C18_Witness ==
  \E c \in CallIds :
    /\ Done(c)
    /\ calls[c].yielded = "invalidJson"
    /\ calls[c].mode = "first"
    /\ calls[c].attempt = 1
    /\ calls[c].attempts = 3
    /\ Returned(c).provider = "null"

\* The identifier of the provider whose endpoint callProviderApi posts to
EndpointProvider == IF Endpoint(env) = "gemini" THEN "GEMINI" ELSE "OPENAI"

\* C19: output tagging; a returned document has provider null exactly when it
\* is Stage A's local result, and otherwise names the provider whose endpoint
\* produced the accepted document.
C19_ProviderTag ==
  \A c \in CallIds :
    Done(c)
      => IF Returned(c).provider = "null"
         THEN Returned(c) = LocalDocument(calls[c].rules)
         ELSE /\ calls[c].yielded = "validJson"
              /\ Endpoint(env) # "none"
              /\ Returned(c).provider = EndpointProvider

\* ---------------------------------------------------------------- the order requests' claims

\* The totals of c's orders that exist and are COMPLETED
RECURSIVE CompletedTotal(_, _)
CompletedTotal(c, ids) ==
  IF ids = {} THEN 0
  ELSE LET id == CHOOSE x \in ids : TRUE
       IN (IF orders[id].customerId = c /\ orders[id].status = "COMPLETED"
           THEN orders[id].total ELSE 0)
            + CompletedTotal(c, ids \ {id})

\* C20: order bookkeeping; whatever create, status PATCH and delete requests
\* have been served one after another, and whichever of them failed, each
\* customer's totalSpending is its value before them plus the totals of its
\* existing COMPLETED orders, and its visitCount the value before plus the
\* number of its orders created; a request's order write and customer write
\* show in the tables together or not at all.
C20_OrderBookkeeping ==
  \A c \in CustomerIds :
    /\ customers[c].totalSpending
         = ledger.prior[c].totalSpending + CompletedTotal(c, OrderIds)
    /\ customers[c].visitCount = ledger.prior[c].visitCount + ledger.created[c]

\* Customer 2 has had two orders created; the first is deleted, the second is
\* COMPLETED and counted in totalSpending, and a PATCH has written its order
\* inside its transaction, its customer not yet
C20_Witness ==
  /\ ledger.created[2] = 2
  /\ orders[1] = NoRow
  /\ orders[2].status = "COMPLETED"
  /\ orders[2].customerId = 2
  /\ customers[2].totalSpending = ledger.prior[2].totalSpending + orders[2].total
  /\ request.pc = "customer"
  /\ request.kind = "patch"
  /\ request.txOrders # orders

\* The ids of the communication logs of campaign c
LogsOf(c) == {i \in 1..Len(logs) : logs[i].campaignId = c}

\* C21: launching is all-or-nothing.  In every reachable state, also after a
\* write of the launch transaction or its commit failed, a campaign that is
\* ACTIVE or PAUSED has its launch logs (at least one, and no fewer than its
\* audienceSize), and a campaign still in DRAFT has no log; for the launch
\* route and for the auto-launch of POST /segments alike.
C21_LaunchAllOrNothing ==
  \A c \in CampaignIds :
    /\ campaigns[c].status \in {"ACTIVE", "PAUSED"} =>
         /\ campaigns[c].audienceSize >= 1
         /\ Cardinality(LogsOf(c)) >= campaigns[c].audienceSize
    /\ campaigns[c].status \in {"none", "DRAFT"} => LogsOf(c) = {}

\* A launch has just committed: the campaign is ACTIVE with one PENDING log for
\* each of its two customers, and sendCampaignMessages has been called
C21_Witness ==
  \E s \in LaunchSlots :
    /\ senders[s].pc = "find"
    /\ campaigns[senders[s].campaignId].status = "ACTIVE"
    /\ campaigns[senders[s].campaignId].audienceSize = 2
    /\ Len(logs) = 2
    /\ \A i \in 1..Len(logs) :
         logs[i].campaignId = senders[s].campaignId /\ logs[i].status = "PENDING"

\* C22: a delivery status is final.  Once a delivery receipt has been written
\* to a communication log, the log's status is DELIVERED or FAILED in every
\* later state: no step of sendCampaignMessages, its batch update to SENT
\* included, changes it back.
C22_FinalDeliveryStatus ==
  \A i \in 1..Len(logs) : logs[i].receipt => logs[i].status \in {"DELIVERED", "FAILED"}

\* C23: the campaign lifecycle is one-way.  In every step a campaign's status
\* stays as it is, or moves from absent to DRAFT (create), from DRAFT to ACTIVE
\* (launch) or from ACTIVE to PAUSED (pause), and its rules change only while
\* it is DRAFT.
C23_OneWayLifecycle ==
  [][\A c \in CampaignIds :
       /\ campaigns'[c].status # campaigns[c].status =>
            <<campaigns[c].status, campaigns'[c].status>> \in
              {<<"none", "DRAFT">>, <<"DRAFT", "ACTIVE">>, <<"ACTIVE", "PAUSED">>}
       /\ campaigns'[c].rules # campaigns[c].rules =>
            campaigns[c].status \in {"none", "DRAFT"}]_vars

\* C24: a campaign is launched at most once.  In every reachable state no
\* customer has two communication logs of the same campaign, and a launched
\* campaign's audienceSize is the number of its logs.
C24_LaunchedAtMostOnce ==
  \A c \in CampaignIds :
    /\ \A k \in CustomerIds :
         Cardinality({i \in LogsOf(c) : logs[i].customerId = k}) <= 1
    /\ campaigns[c].status \in {"ACTIVE", "PAUSED"} =>
         campaigns[c].audienceSize = Cardinality(LogsOf(c))

\* C25: pause stops delivery.  No step of sendCampaignMessages that calls the
\* vendor's send-message or marks logs SENT is taken while the campaign it
\* sends for is PAUSED.
C25_PauseStopsDelivery ==
  [][\A s \in LaunchSlots :
       (senders[s].pc \in {"post", "flush"} /\ senders'[s] # senders[s]) =>
         campaigns[senders[s].campaignId].status # "PAUSED"]_vars

\* C26: the order bookkeeping survives requests that overlap.  With PATCH and
\* DELETE requests on the same order interleaved, each customer's
\* totalSpending is in every state its value before the orders plus the
\* totals of its existing COMPLETED orders.
C26_OverlapBookkeeping ==
  \A c \in CustomerIds :
    customers[c].totalSpending
      = ledger.prior[c].totalSpending + CompletedTotal(c, OrderIds)

\* The log is as the sender left it: SENT if the vendor accepted it, FAILED if not
AsTheSenderWrote(log) ==
  IF log.accepted THEN log.status = "SENT" ELSE log.status = "FAILED"

\* The log has left PENDING: FAILED if the vendor did not accept it, and
\* otherwise SENT, or what a delivery receipt has made of it since
Processed(log) ==
  IF log.accepted THEN log.status \in {"SENT", "DELIVERED", "FAILED"}
  ELSE log.status = "FAILED"

\* sendCampaignMessages returns in this step
SenderReturns == senders[1].pc # "returned" /\ senders'[1].pc = "returned"

\* C27 as stated: at the return of sendCampaignMessages every log that was
\* PENDING when it started is SENT if the vendor accepted it and FAILED
\* otherwise.
C27_SentOrFailedAtReturn ==
  [][SenderReturns =>
       \A k \in 1..Len(senders'[1].pendingLogs) :
         AsTheSenderWrote(logs'[senders'[1].pendingLogs[k]])]_vars

\* C27: every pending message is processed.  With every vendor call and
\* write settling, sendCampaignMessages returns, and at its return every log
\* that was PENDING when it started has left PENDING: FAILED if the vendor did
\* not accept it, and otherwise SENT or already DELIVERED or FAILED by a
\* delivery receipt; for every number of logs and batch size.
C27_EveryPendingProcessed ==
  /\ <>(senders[1].pc = "returned")
  /\ [][SenderReturns =>
          \A k \in 1..Len(senders'[1].pendingLogs) :
            Processed(logs'[senders'[1].pendingLogs[k]])]_vars

\* The sender has returned from two logs sent in batches of one: the receipt
\* of the first came after its flush, the second is SENT and its receipt due
C27_Witness ==
  /\ senders[1].pc = "returned"
  /\ senders[1].pendingLogs = <<1, 2>>
  /\ logs[1].status = "DELIVERED"
  /\ logs[2].status = "SENT"
  /\ logs[2].timers = 1

\* The fields of the customer table that Stage A infers comparisons on
FilterFields == {F_totalSpending, F_visitCount, F_lastVisit}

\* C28: inferred conditions are filterable.  Every condition of a document
\* Stage A returned whose field is totalSpending, visitCount or lastVisit is
\* compiled by buildWhereClause to a constraint, never to the empty object.
C28_InferredFilterable ==
  \A c \in CallIds :
    Done(c) =>
      \A i \in 1..Len(Returned(c).conditions) :
        Returned(c).conditions[i].field \in FilterFields =>
          ConditionWhere(RuleDocOf(Returned(c)).conditions[i], now) # NoConstraint

\* C29: the segment compiler mirrors the campaign compiler.  For every rule
\* document buildWhereClauseForSegment returns what buildWhereClause returns
\* (or throws where it throws), so that both find the same customers.
C29_SegmentMirrorsCampaign ==
  Compiled =>
    /\ BuildWhereClauseForSegment(ruleDoc) = whereClause[1]
    /\ Audience(BuildWhereClauseForSegment(ruleDoc).where) = Audience(whereClause[1].where)

\* C30: the dev-only public endpoint.  With NODE_ENV other than production, a
\* POST to /api/ai/nl-to-rules-public with a prompt and no token is answered
\* 200 with the rules, and has passed no authentication check.
C30_PublicEndpointOpen ==
  (/\ http.pc = "answered"
   /\ http.nodeEnv # "production"
   /\ http.mount = "/api/ai"
   /\ http.route = "/nl-to-rules-public"
   /\ http.prompt = "given"
   /\ http.token = "none")
    => /\ http.status = 200
       /\ \A i \in 1..Len(http.passed) : http.passed[i] # "authenticateUser"

====
